---- MODULE Spec2Model ----
(***************************************************************************)
(* Model of the whisper-api transcription core: TranscriptionStats,        *)
(* WhisperService (load_model / transcribe on the local and the cloud     *)
(* path), AizuchiFilter, HallucinationFilter and HotwordsManager.          *)
(*                                                                         *)
(* Text.  A Python str is a sequence of characters; a character is a      *)
(* one-element token.  ASCII characters are themselves ("a", ".", " ");   *)
(* a non-ASCII character is written as a romanised name in braces:        *)
(*   hiragana "{u}" U+3046, "{n}" U+3093, "{ha}" U+306F, ...,             *)
(*     "{tt}" U+3063 (small tsu)                                           *)
(*   katakana in capitals "{TE}" U+30C6, "{SU}" U+30B9, "{TO}" U+30C8,    *)
(*     "{ya}" small: "{xYA}" U+30E3                                        *)
(*   kanji by reading "{kanji:warai}" U+7B11, "{kanji:tashika}" U+78BA    *)
(*   "{-}" U+30FC (long vowel mark), "{~}" U+301C (wave dash),            *)
(*   "{.}" U+3002, "{..}" U+FF0E, "{,}" U+3001 (Japanese punctuation),    *)
(*   "{sp}" U+3000 (ideographic space), "{note}" U+266A, "{notes}" U+266B *)
(*                                                                         *)
(* Numbers.  Python floats are modelled exactly as integers or rationals: *)
(* times and durations are integers in units of 0.1 s, log-probabilities  *)
(* are integers in units of 0.1, and every quotient the code computes     *)
(* (average, rate, confidence) is a reduced fraction [n, d] with d > 0.   *)
(***************************************************************************)
EXTENDS Integers, Sequences, FiniteSets, TLC

VARIABLES
    provider_type,        \* WhisperService._provider_type
    api_key,              \* config.groq_api_key / openai_api_key present?
    model,                \* WhisperService.model: "None" or "WhisperModel"
    cloud_provider,       \* WhisperService.cloud_provider: None or a provider
    stats,                \* WhisperService.stats: TranscriptionStats
    aizuchi_filter,       \* an AizuchiFilter object
    hallucination_filter, \* a HallucinationFilter object
    calls,                \* number of transcribe / record / filter calls made
    history,              \* log of what was done to the object under study
    request,              \* the last call: operation, arguments, environment
    result,               \* what the last call gave back to its caller
    invoked,              \* providers' invocation counts (local, cloud)
    pc,                   \* per thread: position inside transcribe/record
    frame,                \* per thread: locals of the running call
    hotwords              \* HotwordsManager.hotwords: the list of terms

vars == <<provider_type, api_key, model, cloud_provider, stats, aizuchi_filter,
          hallucination_filter, calls, history, request, result, invoked, pc,
          frame, hotwords>>

(***************************************************************************)
(* Bounds                                                                  *)
(***************************************************************************)
MaxRequests == 2
NThreads == 2
MaxSegments == 2
MaxFilterCalls == 2
MaxAizuchiCalls == 2
MaxHotwordCalls == 2
MaxProviderCalls == 2

None == "None"

(***************************************************************************)
(* Exact arithmetic                                                        *)
(***************************************************************************)
Abs(x) == IF x < 0 THEN -x ELSE x

RECURSIVE Gcd(_, _)
Gcd(a, b) == IF b = 0 THEN a ELSE Gcd(b, a % b)

\* Python's true division a / b (b # 0) as a reduced fraction.
Div(a, b) ==
    LET s == IF b < 0 THEN -1 ELSE 1
        g == Gcd(Abs(a), Abs(b))
    IN  [n |-> (s * a) \div g, d |-> (s * b) \div g]

FromInt(k) == [n |-> k, d |-> 1]

RAdd(x, y) == Div(x.n * y.d + y.n * x.d, x.d * y.d)

RLess(x, y) == x.n * y.d < y.n * x.d

\* Python's builtin max / min on two floats.
RMax(x, y) == IF RLess(x, y) THEN y ELSE x
RMin(x, y) == IF RLess(y, x) THEN y ELSE x

(***************************************************************************)
(* Text: str.strip, str.split, str.join, str.count                         *)
(***************************************************************************)
\* Characters for which str.isspace() holds (and which \s matches).
Whitespace == {" ", "\t", "\n", "\r", "{sp}"}

RECURSIVE lstrip(_)
lstrip(t) ==
    IF t # <<>> /\ Head(t) \in Whitespace THEN lstrip(Tail(t)) ELSE t

RECURSIVE rstrip(_)
rstrip(t) ==
    IF t # <<>> /\ t[Len(t)] \in Whitespace
    THEN rstrip(SubSeq(t, 1, Len(t) - 1)) ELSE t

strip(t) == rstrip(lstrip(t))

\* sep.join(parts)
RECURSIVE join(_, _)
join(sep, parts) ==
    IF parts = <<>> THEN <<>>
    ELSE IF Len(parts) = 1 THEN parts[1]
    ELSE parts[1] \o sep \o join(sep, Tail(parts))

\* text.split(): the maximal runs of non-whitespace characters, in order.
RECURSIVE split_from(_, _, _)
split_from(t, i, cur) ==
    IF i > Len(t) THEN (IF cur = <<>> THEN <<>> ELSE <<cur>>)
    ELSE IF t[i] \in Whitespace
         THEN (IF cur = <<>> THEN <<>> ELSE <<cur>>) \o split_from(t, i + 1, <<>>)
         ELSE split_from(t, i + 1, Append(cur, t[i]))

split(t) == split_from(t, 1, <<>>)

StartsAt(t, p, i) ==
    /\ i + Len(p) - 1 <= Len(t)
    /\ \A k \in 1..Len(p) : t[i + k - 1] = p[k]

\* text.count(p): the number of non-overlapping occurrences, left to right.
RECURSIVE count_from(_, _, _)
count_from(t, p, i) ==
    IF i + Len(p) - 1 > Len(t) THEN 0
    ELSE IF StartsAt(t, p, i) THEN 1 + count_from(t, p, i + Len(p))
    ELSE count_from(t, p, i + 1)

count(t, p) == count_from(t, p, 1)

(***************************************************************************)
(* Regular expressions as the re module matches them.  A pattern is a     *)
(* sequence of items; an item is a character class with a repetition.     *)
(***************************************************************************)
Class(S) == [neg |-> FALSE, set |-> S]
NotClass(S) == [neg |-> TRUE, set |-> S]
InClass(c, cls) == (c \in cls.set) # cls.neg

Lit(c) == [cls |-> Class({c}), lo |-> 1, many |-> FALSE]
Star(cls) == [cls |-> cls, lo |-> 0, many |-> TRUE]
Plus(cls) == [cls |-> cls, lo |-> 1, many |-> TRUE]
Opt(cls) == [cls |-> cls, lo |-> 0, many |-> FALSE]

\* a literal string: one Lit per character
Lits(s) == [k \in 1..Len(s) |-> Lit(s[k])]

\* "." without DOTALL, and "any character at all"
Dot == NotClass({"\n"})
AnyChar == NotClass({})

\* "$" without MULTILINE: the end, or just before a final newline
EndAnchor == <<Opt(Class({"\n"}))>>

\* items[i..] matches exactly t[j..]
RECURSIVE MatchFrom(_, _, _, _)
MatchFrom(items, t, i, j) ==
    IF i > Len(items) THEN j > Len(t)
    ELSE LET it == items[i] IN
         \/ (it.lo = 0 /\ MatchFrom(items, t, i + 1, j))
         \/ /\ j <= Len(t)
            /\ InClass(t[j], it.cls)
            /\ \/ MatchFrom(items, t, i + 1, j + 1)
               \/ (it.many /\ MatchFrom(items, t, i, j + 1))

\* re.compile("^" + items + "$").match(t) and .search(t)
FullMatch(items, t) == MatchFrom(items \o EndAnchor, t, 1, 1)

\* re.compile(items).search(t), items unanchored
Contains(items, t) ==
    MatchFrom(<<Star(AnyChar)>> \o items \o <<Star(AnyChar)>>, t, 1, 1)

(***************************************************************************)
(* TranscriptionStats (whisper.py)                                         *)
(***************************************************************************)
TranscriptionStats ==
    [total_requests |-> 0, successful_requests |-> 0, failed_requests |-> 0,
     total_processing_time |-> 0, total_audio_seconds |-> 0]

\* a record that does not count failures
record_forgets_failure(s, processing_time, success, audio_duration_seconds) ==
    [total_requests |-> s.total_requests + 1,
     total_processing_time |-> s.total_processing_time + processing_time,
     total_audio_seconds |-> s.total_audio_seconds + audio_duration_seconds,
     successful_requests |->
         IF success THEN s.successful_requests + 1 ELSE s.successful_requests,
     failed_requests |-> s.failed_requests]

record(s, processing_time, success, audio_duration_seconds) ==
    [total_requests |-> s.total_requests + 1,
     total_processing_time |-> s.total_processing_time + processing_time,
     total_audio_seconds |-> s.total_audio_seconds + audio_duration_seconds,
     successful_requests |->
         IF success THEN s.successful_requests + 1 ELSE s.successful_requests,
     failed_requests |->
         IF success THEN s.failed_requests ELSE s.failed_requests + 1]

avg_processing_time(s) ==
    IF s.total_requests = 0 THEN FromInt(0)
    ELSE Div(s.total_processing_time, s.total_requests)

\* a success rate that starts at 0 instead of 1
success_rate_from_zero(s) ==
    IF s.total_requests = 0 THEN FromInt(0)
    ELSE Div(s.successful_requests, s.total_requests)

success_rate(s) ==
    IF s.total_requests = 0 THEN FromInt(1)
    ELSE Div(s.successful_requests, s.total_requests)

(***************************************************************************)
(* AizuchiFilter (aizuchi_filter.py)                                       *)
(***************************************************************************)
\* the trailing "[<punctuation>]*" every default pattern ends with
Punct == <<Star(Class({"{.}", "{..}", "{,}"}))>>
LongMarks == <<Star(Class({"{-}"}))>>

\* the pattern strings, in the romanised notation of this module
DEFAULT_PATTERNS == <<
    "^{u}{n}[{.}{..}{,}]*$",
    "^{n}[{-}{~}]*[{.}{..}{,}]*$",
    "^{ha}{i}[{.}{..}{,}]*$",
    "^{e}{e}[{.}{..}{,}]*$",
    "^{he}{-}[{-}]*[{.}{..}{,}]*$",
    "^{e}{-}[{tt}{to}]*[{.}{..}{,}]*$",
    "^{a}{-}[{.}{..}{,}]*$",
    "^{ma}{a}[{.}{..}{,}]*$",
    "^{e}{tt}{to}[{.}{..}{,}]*$",
    "^{a}{no}{-}*[{.}{..}{,}]*$",
    "^{so}{no}[{-}]*[{.}{..}{,}]*$",
    "^{na}{n}{ka}[{.}{..}{,}]*$",
    "^{so}{u}{de}{su}{ne}[{.}{..}{,}]*$",
    "^{na}{ru}{ho}{do}[{ne}]*[{.}{..}{,}]*$",
    "^{kanji:tashika}{ka}{ni}[{.}{..}{,}]*$",
    "^{so}{u}{so}{u}[{.}{..}{,}]*$",
    "^{so}{tt}{ka}[{-}]*[{.}{..}{,}]*$",
    "^{so}{u}{da}{ne}[{.}{..}{,}]*$",
    "^{da}{ne}[{.}{..}{,}]*$",
    "^{ne}[{-}]*[{.}{..}{,}]*$",
    "^{o}{-}[{.}{..}{,}]*$",
    "^{wa}{-}[{.}{..}{,}]*$",
    "^{su}{go}{i}[{.}{..}{,}]*$",
    "^{fu}{-}{n}[{.}{..}{,}]*$",
    "^{ho}{-}[{.}{..}{,}]*$",
    "^[{kanji:warai}{wa}{ha}w]+[{.}{..}{,}]*$",
    "^\\({kanji:warai}\\)[{.}{..}{,}]*$",
    "^{fu}{fu}[{fu}]*[{.}{..}{,}]*$",
    "^{a}{ha}[{ha}]*[{.}{..}{,}]*$"
>>

\* what re.compile makes of each default pattern (without "^" and "$")
DefaultCompiled == <<
    Lits(<<"{u}", "{n}">>) \o Punct,
    Lits(<<"{n}">>) \o <<Star(Class({"{-}", "{~}"}))>> \o Punct,
    Lits(<<"{ha}", "{i}">>) \o Punct,
    Lits(<<"{e}", "{e}">>) \o Punct,
    Lits(<<"{he}", "{-}">>) \o LongMarks \o Punct,
    Lits(<<"{e}", "{-}">>) \o <<Star(Class({"{tt}", "{to}"}))>> \o Punct,
    Lits(<<"{a}", "{-}">>) \o Punct,
    Lits(<<"{ma}", "{a}">>) \o Punct,
    Lits(<<"{e}", "{tt}", "{to}">>) \o Punct,
    Lits(<<"{a}", "{no}">>) \o LongMarks \o Punct,
    Lits(<<"{so}", "{no}">>) \o LongMarks \o Punct,
    Lits(<<"{na}", "{n}", "{ka}">>) \o Punct,
    Lits(<<"{so}", "{u}", "{de}", "{su}", "{ne}">>) \o Punct,
    Lits(<<"{na}", "{ru}", "{ho}", "{do}">>) \o <<Star(Class({"{ne}"}))>> \o Punct,
    Lits(<<"{kanji:tashika}", "{ka}", "{ni}">>) \o Punct,
    Lits(<<"{so}", "{u}", "{so}", "{u}">>) \o Punct,
    Lits(<<"{so}", "{tt}", "{ka}">>) \o LongMarks \o Punct,
    Lits(<<"{so}", "{u}", "{da}", "{ne}">>) \o Punct,
    Lits(<<"{da}", "{ne}">>) \o Punct,
    Lits(<<"{ne}">>) \o LongMarks \o Punct,
    Lits(<<"{o}", "{-}">>) \o Punct,
    Lits(<<"{wa}", "{-}">>) \o Punct,
    Lits(<<"{su}", "{go}", "{i}">>) \o Punct,
    Lits(<<"{fu}", "{-}", "{n}">>) \o Punct,
    Lits(<<"{ho}", "{-}">>) \o Punct,
    <<Plus(Class({"{kanji:warai}", "{wa}", "{ha}", "w"}))>> \o Punct,
    Lits(<<"(", "{kanji:warai}", ")">>) \o Punct,
    Lits(<<"{fu}", "{fu}">>) \o <<Star(Class({"{fu}"}))>> \o Punct,
    Lits(<<"{a}", "{ha}">>) \o <<Star(Class({"{ha}"}))>> \o Punct
>>


\* re.compile(p) of a pattern string
re_compile(p) ==
    DefaultCompiled[CHOOSE k \in 1..Len(DEFAULT_PATTERNS) : DEFAULT_PATTERNS[k] = p]

\* AizuchiFilter(patterns=None, max_length, enabled)
AizuchiFilter(max_length, enabled) ==
    [patterns |-> DEFAULT_PATTERNS, max_length |-> max_length,
     enabled |-> enabled,
     compiled |-> [k \in 1..Len(DEFAULT_PATTERNS) |-> DEFAULT_PATTERNS[k]]]

\* an is_aizuchi without the length limit
is_aizuchi_any_length(f, text) ==
    IF ~f.enabled THEN FALSE
    ELSE LET t == strip(text) IN
         IF Len(t) = 0 THEN FALSE
         ELSE \E k \in 1..Len(f.compiled) : FullMatch(re_compile(f.compiled[k]), t)

is_aizuchi(f, text) ==
    IF ~f.enabled THEN FALSE
    ELSE LET t == strip(text) IN
         IF Len(t) > f.max_length THEN FALSE
         ELSE IF Len(t) = 0 THEN FALSE
         ELSE \E k \in 1..Len(f.compiled) : FullMatch(re_compile(f.compiled[k]), t)

\* the list without its element at idx (list.pop(idx))
pop(list, idx) == SubSeq(list, 1, idx - 1) \o SubSeq(list, idx + 1, Len(list))

\* list.index(x): the first position of x
index(list, x) == CHOOSE k \in 1..Len(list) : list[k] = x /\ \A j \in 1..(k - 1) : list[j] # x

add_pattern(f, pattern) ==
    [f EXCEPT !.patterns = Append(@, pattern), !.compiled = Append(@, pattern)]

\* the filter afterwards, the value returned and the exception raised:
\* self._compiled.pop(idx) raises when _compiled is shorter than patterns,
\* after self.patterns.pop(idx) has been done
remove_pattern(f, pattern) ==
    IF \E k \in 1..Len(f.patterns) : f.patterns[k] = pattern
    THEN LET idx == index(f.patterns, pattern) IN
         IF idx <= Len(f.compiled)
         THEN [filter |-> [f EXCEPT !.patterns = pop(@, idx), !.compiled = pop(@, idx)],
               value |-> TRUE, raised |-> None]
         ELSE [filter |-> [f EXCEPT !.patterns = pop(@, idx)],
               value |-> FALSE, raised |-> "IndexError: pop index out of range"]
    ELSE [filter |-> f, value |-> FALSE, raised |-> None]

\* AizuchiFilter.get_stats()
aizuchi_get_stats(f) ==
    [enabled |-> f.enabled, pattern_count |-> Len(f.patterns),
     max_length |-> f.max_length]

(***************************************************************************)
(* HallucinationFilter (hallucination_filter.py)                           *)
(***************************************************************************)
HallucinationStats ==
    [total_filtered |-> 0, repetition_filtered |-> 0, pattern_filtered |-> 0]

\* one character of a pattern compiled with re.IGNORECASE
CI(lower, upper) == [cls |-> Class({lower, upper}), lo |-> 1, many |-> FALSE]

\* Each pattern: anchored ("^...$") or not, and its alternatives
\* ("(?:a|b|c)+" searched for is "contains a, b or c").
Anchored(items) == [anchored |-> TRUE, alts |-> {items}]
Floating(alts) == [anchored |-> FALSE, alts |-> alts]

HALLUCINATION_PATTERNS == <<
    Anchored(Lits(<<"{kanji:ji}", "{kanji:maku}", "{kanji:tei}", "{kanji:kyou}">>)
             \o <<Star(Dot)>>),
    Anchored(Lits(<<"{go}", "{kanji:shi}", "{kanji:chou}", "{a}", "{ri}", "{ga}",
                    "{to}", "{u}", "{go}", "{za}", "{i}", "{ma}", "{shi}", "{ta}">>)
             \o <<Star(Dot)>>),
    Anchored(Lits(<<"{CHI}", "{xYA}", "{N}", "{NE}", "{RU}", "{kanji:tou}",
                    "{kanji:roku}">>) \o <<Star(Dot)>>),
    Anchored(Lits(<<"{o}", "{kanji:tsuka}", "{re}", "{kanji:sama}", "{de}",
                    "{shi}", "{ta}">>)),
    Anchored(<<Plus(Class({"."}))>>),
    Anchored(<<Plus(Class({","}))>>),
    Anchored(<<Plus(Class(Whitespace))>>),
    Floating({<<CI("m", "M"), CI("u", "U"), CI("s", "S"), CI("i", "I"), CI("c", "C")>>,
              Lits(<<"{note}">>), Lits(<<"{notes}">>)}),
    Floating({Lits(<<"[", "{kanji:on}", "{kanji:gaku}", "]">>)}),
    Floating({Lits(<<"[", "{kanji:haku}", "{kanji:shu}", "]">>)}),
    Anchored(<<Star(Class(Whitespace)), Lit("{o}"), Star(Class(Whitespace))>>),
    Anchored(<<Star(Class(Whitespace)), Lit("{n}"), Star(Class(Whitespace))>>)
>>

\* pattern.search(text)
Search(pattern, text) ==
    \E items \in pattern.alts :
        IF pattern.anchored THEN FullMatch(items, text) ELSE Contains(items, text)

HallucinationFilter(enabled, min_repetition_count, max_repetition_length) ==
    [enabled |-> enabled,
     min_repetition_count |-> min_repetition_count,
     max_repetition_length |-> max_repetition_length,
     stats |-> HallucinationStats]

Min(a, b) == IF a < b THEN a ELSE b

\* the "for phrase_len in range(2, stop)" loop of detect_repetition, from
\* phrase_len on; returns the first qualifying prefix, <<>> when none does
RECURSIVE repetition_scan(_, _, _, _)
repetition_scan(f, text, phrase_len, stop) ==
    IF phrase_len >= stop THEN <<>>
    ELSE LET phrase == SubSeq(text, 1, phrase_len)
             repetitions == count(text, phrase)
             expected_len == Len(phrase) * repetitions
         IN  IF /\ repetitions >= f.min_repetition_count
                \* expected_len / len(text) >= 0.8
                /\ 5 * expected_len >= 4 * Len(text)
             THEN phrase
             ELSE repetition_scan(f, text, phrase_len + 1, stop)

\* (is_repetition, repeated_phrase); the phrase None is <<>>
detect_repetition(f, text0) ==
    IF text0 = <<>> \/ Len(text0) < 6 THEN [is_repetition |-> FALSE, phrase |-> <<>>]
    ELSE LET text == strip(text0)
             words == split(text)
         IN  IF /\ Len(words) >= f.min_repetition_count
                /\ Cardinality({words[k] : k \in 1..Len(words)}) = 1
             THEN [is_repetition |-> TRUE, phrase |-> words[1]]
             ELSE LET p == repetition_scan(f, text, 2,
                               Min(f.max_repetition_length + 1, (Len(text) \div 2) + 1))
                  IN  [is_repetition |-> p # <<>>, phrase |-> p]

detect_pattern_hallucination(f, text) ==
    IF text = <<>> THEN FALSE
    ELSE \E k \in 1..Len(HALLUCINATION_PATTERNS) : Search(HALLUCINATION_PATTERNS[k], text)

\* the reason strings of filter
NoReason == [tag |-> None, phrase |-> <<>>]
PatternMatch == [tag |-> "pattern_match", phrase |-> <<>>]
Repetition == [tag |-> "repetition", phrase |-> <<>>]
RepetitionOf(phrase) == [tag |-> "repetition:", phrase |-> phrase]

\* a filter that looks for a repetition before it looks for a pattern
filter_repetition_first(f, text) ==
    IF ~f.enabled \/ text = <<>>
    THEN [text |-> text, was_filtered |-> FALSE, reason |-> NoReason, stats |-> f.stats]
    ELSE LET r == detect_repetition(f, text) IN
         IF r.is_repetition
         THEN [text |-> strip(r.phrase), was_filtered |-> TRUE,
               reason |-> RepetitionOf(r.phrase),
               stats |-> [f.stats EXCEPT !.total_filtered = @ + 1,
                                         !.repetition_filtered = @ + 1]]
         ELSE IF detect_pattern_hallucination(f, text)
         THEN [text |-> <<>>, was_filtered |-> TRUE, reason |-> PatternMatch,
               stats |-> [f.stats EXCEPT !.total_filtered = @ + 1,
                                         !.pattern_filtered = @ + 1]]
         ELSE [text |-> text, was_filtered |-> FALSE, reason |-> NoReason,
               stats |-> f.stats]

\* a filter that counts every text it looks at and returns it trimmed
filter_counts_and_trims(f, text) ==
    IF ~f.enabled \/ text = <<>>
    THEN [text |-> text, was_filtered |-> FALSE, reason |-> NoReason, stats |-> f.stats]
    ELSE IF detect_pattern_hallucination(f, text)
    THEN [text |-> <<>>, was_filtered |-> TRUE, reason |-> PatternMatch,
          stats |-> [f.stats EXCEPT !.total_filtered = @ + 1,
                                    !.pattern_filtered = @ + 1]]
    ELSE LET r == detect_repetition(f, text)
             counted == [f.stats EXCEPT !.total_filtered = @ + 1,
                                        !.repetition_filtered = @ + 1]
         IN  IF r.is_repetition
             THEN [text |-> strip(r.phrase), was_filtered |-> TRUE,
                   reason |-> RepetitionOf(r.phrase), stats |-> counted]
             ELSE [text |-> strip(text), was_filtered |-> FALSE, reason |-> NoReason,
                   stats |-> [f.stats EXCEPT !.total_filtered = @ + 1]]

\* a filter that forgets total_filtered when it finds a repetition
filter_uncounted_repetition(f, text) ==
    IF ~f.enabled \/ text = <<>>
    THEN [text |-> text, was_filtered |-> FALSE, reason |-> NoReason, stats |-> f.stats]
    ELSE IF detect_pattern_hallucination(f, text)
    THEN [text |-> <<>>, was_filtered |-> TRUE, reason |-> PatternMatch,
          stats |-> [f.stats EXCEPT !.total_filtered = @ + 1,
                                    !.pattern_filtered = @ + 1]]
    ELSE LET r == detect_repetition(f, text)
             counted == [f.stats EXCEPT !.repetition_filtered = @ + 1]
         IN  IF r.is_repetition
             THEN IF r.phrase # <<>>
                  THEN [text |-> strip(r.phrase), was_filtered |-> TRUE,
                        reason |-> RepetitionOf(r.phrase), stats |-> counted]
                  ELSE [text |-> <<>>, was_filtered |-> TRUE,
                        reason |-> Repetition, stats |-> counted]
             ELSE [text |-> text, was_filtered |-> FALSE, reason |-> NoReason,
                   stats |-> f.stats]

\* filter(text): the returned tuple, and the filter's counters afterwards
filter(f, text) ==
    IF ~f.enabled \/ text = <<>>
    THEN [text |-> text, was_filtered |-> FALSE, reason |-> NoReason, stats |-> f.stats]
    ELSE IF detect_pattern_hallucination(f, text)
    THEN [text |-> <<>>, was_filtered |-> TRUE, reason |-> PatternMatch,
          stats |-> [f.stats EXCEPT !.total_filtered = @ + 1,
                                    !.pattern_filtered = @ + 1]]
    ELSE LET r == detect_repetition(f, text)
             counted == [f.stats EXCEPT !.total_filtered = @ + 1,
                                        !.repetition_filtered = @ + 1]
         IN  IF r.is_repetition
             THEN IF r.phrase # <<>>
                  THEN [text |-> strip(r.phrase), was_filtered |-> TRUE,
                        reason |-> RepetitionOf(r.phrase), stats |-> counted]
                  ELSE [text |-> <<>>, was_filtered |-> TRUE,
                        reason |-> Repetition, stats |-> counted]
             ELSE [text |-> text, was_filtered |-> FALSE, reason |-> NoReason,
                   stats |-> f.stats]

get_stats(f) ==
    [enabled |-> f.enabled,
     min_repetition_count |-> f.min_repetition_count,
     max_repetition_length |-> f.max_repetition_length,
     total_filtered |-> f.stats.total_filtered,
     repetition_filtered |-> f.stats.repetition_filtered,
     pattern_filtered |-> f.stats.pattern_filtered]

(***************************************************************************)
(* HotwordsManager (hotwords.py).  A term is a str; the list is a sequence *)
(* of terms.                                                               *)
(***************************************************************************)
\* word in list
In(word, list) == \E k \in 1..Len(list) : list[k] = word

\* "for word in new_hotwords: if word not in self.hotwords: append(word)"
RECURSIVE merge_words(_, _)
merge_words(list, new_hotwords) ==
    IF new_hotwords = <<>> THEN list
    ELSE merge_words(IF In(Head(new_hotwords), list) THEN list
                     ELSE Append(list, Head(new_hotwords)),
                     Tail(new_hotwords))

\* value.split(","): the pieces between the commas, empty ones included
RECURSIVE split_comma_from(_, _, _)
split_comma_from(t, i, cur) ==
    IF i > Len(t) THEN <<cur>>
    ELSE IF t[i] = "," THEN <<cur>> \o split_comma_from(t, i + 1, <<>>)
    ELSE split_comma_from(t, i + 1, Append(cur, t[i]))

split_comma(t) == split_comma_from(t, 1, <<>>)

\* [w.strip() for w in ws if w.strip()]
RECURSIVE stripped_nonempty(_)
stripped_nonempty(ws) ==
    IF ws = <<>> THEN <<>>
    ELSE (IF strip(Head(ws)) # <<>> THEN <<strip(Head(ws))>> ELSE <<>>)
         \o stripped_nonempty(Tail(ws))

\* What open(path) and json.load give.  json: "missing" (no such file),
\* "invalid" (JSONDecodeError), "array" (a document that is no object) or
\* "object"; hotwords: the kind of data["hotwords"]; value: its items.
Document(json, kind, value) == [json |-> json, hotwords |-> kind, value |-> value]
NoDocument == Document("missing", "absent", <<>>)

\* iterating a str gives its characters, each a str
chars(t) == [k \in 1..Len(t) |-> <<t[k]>>]

\* add(word): the list afterwards and the value returned
add(list, word) ==
    IF ~In(word, list)
    THEN [hotwords |-> Append(list, word), value |-> TRUE]
    ELSE [hotwords |-> list, value |-> FALSE]

RECURSIVE add_many_from(_, _, _)
add_many_from(list, words, added) ==
    IF words = <<>> THEN [hotwords |-> list, value |-> added]
    ELSE LET r == add(list, Head(words)) IN
         add_many_from(r.hotwords, Tail(words),
                       IF r.value THEN added + 1 ELSE added)

add_many(list, words) == add_many_from(list, words, 0)

\* list.remove(word) removes the first occurrence
remove(list, word) ==
    IF In(word, list)
    THEN [hotwords |-> pop(list, index(list, word)), value |-> TRUE]
    ELSE [hotwords |-> list, value |-> FALSE]

clear(list) == <<>>

\* a load that replaces the list by the document's
load_from_file_replacing(list, doc) ==
    IF doc.json = "object" /\ doc.hotwords = "list" THEN doc.value ELSE <<>>

\* load_from_file(path): the list afterwards; every exception is caught
load_from_file(list, doc) ==
    IF doc.json # "object" THEN list
    ELSE IF doc.hotwords = "absent" THEN merge_words(list, <<>>)
    ELSE IF doc.hotwords = "list" THEN merge_words(list, doc.value)
    ELSE IF doc.hotwords = "string" THEN merge_words(list, chars(doc.value))
    ELSE list

\* load_from_env(): value is os.getenv(env_var, "")
load_from_env(list, value) ==
    IF value # <<>>
    THEN merge_words(list, stripped_nonempty(split_comma(value)))
    ELSE list

\* list[:n] for n >= 0
first(list, n) == SubSeq(list, 1, Min(n, Len(list)))

get_prompt(list, max_words) ==
    IF list = <<>> THEN <<>> ELSE join(<<",", " ">>, first(list, max_words))

\* a merge that puts the request's terms first
merge_request_first(list, request_hotwords, max_total) ==
    join(<<",", " ">>, first(merge_words(request_hotwords, list), max_total))

\* merge_with_request_hotwords(request_hotwords, max_total); None is <<>>
merge_with_request_hotwords(list, request_hotwords, max_total) ==
    LET combined == first(IF request_hotwords # <<>>
                          THEN merge_words(list, request_hotwords)
                          ELSE list, max_total)
    IN  IF combined # <<>> THEN join(<<",", " ">>, combined) ELSE <<>>

\* HotwordsManager(config_path, hotwords): doc is the file at config_path,
\* NoDocument when there is no path or no such file
HotwordsManager(doc, initial) ==
    IF doc.json # "missing" THEN load_from_file(initial, doc) ELSE initial

(***************************************************************************)
(* Cloud providers (cloud_providers.py)                                    *)
(***************************************************************************)
\* the value None of a field that holds a provider object
NoProvider == [kind |-> None, client |-> None, ready |-> FALSE]

\* GroqProvider(api_key, model) / OpenAIProvider(api_key, model)
Provider(kind) == [kind |-> kind, client |-> None, ready |-> FALSE]

\* _ensure_client under the environment's answer to importing the package
\* and constructing the client: "ok", "ImportError" or another exception
ensure_client(p, init) ==
    IF p.client # None THEN [provider |-> p, raised |-> None]
    ELSE IF init = "ok"
         THEN [provider |-> [p EXCEPT !.client = "client", !.ready = TRUE],
               raised |-> None]
    ELSE IF init = "ImportError"
         THEN [provider |-> p, raised |-> "RuntimeError: package not installed"]
    ELSE [provider |-> p, raised |-> init]

provider_is_ready(p, init) ==
    LET e == ensure_client(p, init)
    IN  [provider |-> e.provider,
         value |-> IF e.raised = None THEN e.provider.ready ELSE FALSE]

\* the synthesized confidence of a non-empty text: 0.90 (Groq), 0.92 (OpenAI)
synth_confidence(kind, text) ==
    IF text = <<>> THEN FromInt(0)
    ELSE IF kind = "groq" THEN Div(9, 10) ELSE Div(23, 25)

\* GroqProvider.transcribe / OpenAIProvider.transcribe: env.init answers
\* _ensure_client, env.raises is what the API call raises (None: it returns
\* env.text), env.time is the measured processing time
provider_transcribe(p, env) ==
    LET e == ensure_client(p, env.init) IN
    IF e.raised # None
    THEN [provider |-> e.provider, raised |-> e.raised, called |-> FALSE,
          text |-> <<>>, confidence |-> FromInt(0), processing_time |-> 0]
    ELSE IF env.raises # None
    THEN [provider |-> e.provider, raised |-> env.raises, called |-> TRUE,
          text |-> <<>>, confidence |-> FromInt(0), processing_time |-> 0]
    ELSE LET text == strip(env.text) IN
         [provider |-> e.provider, raised |-> None, called |-> TRUE,
          text |-> text, confidence |-> synth_confidence(p.kind, text),
          processing_time |-> env.time]

\* a factory that does not look at the key
create_provider_unchecked(kind, key_present) ==
    IF kind \in {"groq", "openai"} THEN [raised |-> None, provider |-> Provider(kind)]
    ELSE IF kind = "local" THEN [raised |-> None, provider |-> NoProvider]
    ELSE [raised |-> "ValueError: Unknown provider type", provider |-> NoProvider]

\* create_provider(provider_type, groq_api_key, openai_api_key, ...)
create_provider(kind, key_present) ==
    IF kind = "groq"
    THEN IF ~key_present
         THEN [raised |-> "ValueError: WHISPER_GROQ_API_KEY is required",
               provider |-> NoProvider]
         ELSE [raised |-> None, provider |-> Provider("groq")]
    ELSE IF kind = "openai"
    THEN IF ~key_present
         THEN [raised |-> "ValueError: WHISPER_OPENAI_API_KEY is required",
               provider |-> NoProvider]
         ELSE [raised |-> None, provider |-> Provider("openai")]
    ELSE IF kind = "local" THEN [raised |-> None, provider |-> NoProvider]
    ELSE [raised |-> "ValueError: Unknown provider type", provider |-> NoProvider]

(***************************************************************************)
(* WhisperService (whisper.py)                                             *)
(***************************************************************************)
NotReadyLocal == "RuntimeError: Local model not loaded. Call load_model() first."
NotReadyCloud == "RuntimeError: Cloud provider not initialized. Call load_model() first."

IsCloud(kind) == kind \in {"groq", "openai"}

\* what a call hands to its caller: a returned tuple or a raised exception
NoResult ==
    [kind |-> "none", error |-> None, text |-> <<>>, confidence |-> FromInt(0),
     processing_time |-> 0]
Raise(e) ==
    [kind |-> "exception", error |-> e, text |-> <<>>, confidence |-> FromInt(0),
     processing_time |-> 0]
Return(text, confidence, processing_time) ==
    [kind |-> "ok", error |-> None, text |-> text, confidence |-> confidence,
     processing_time |-> processing_time]

\* arguments of one TranscriptionStats.record call
RecordArgs(processing_time, success, audio_duration_seconds) ==
    [processing_time |-> processing_time, success |-> success,
     audio_duration_seconds |-> audio_duration_seconds]

\* the stats after the record calls a transcribe call made, in order
RECURSIVE apply_records(_, _)
apply_records(s, recs) ==
    IF recs = <<>> THEN s
    ELSE apply_records(
             record(s, recs[1].processing_time, recs[1].success,
                    recs[1].audio_duration_seconds),
             Tail(recs))

\* a segment loop that counts a filler and keeps it all the same
RECURSIVE collect_segments_keeping_fillers(_, _, _, _)
collect_segments_keeping_fillers(f, segments, filter_aizuchi, acc) ==
    IF segments = <<>> THEN acc
    ELSE LET segment == Head(segments)
             text == strip(segment.text)
             counted == IF filter_aizuchi /\ is_aizuchi(f, text)
                        THEN [acc EXCEPT !.filtered_count = @ + 1] ELSE acc
         IN  collect_segments_keeping_fillers(f, Tail(segments), filter_aizuchi,
                 [counted EXCEPT !.text_parts = Append(@, text),
                                 !.total_logprob = @ + segment.avg_logprob,
                                 !.segment_count = @ + 1])

\* the segment loop of _transcribe_local
RECURSIVE collect_segments(_, _, _, _)
collect_segments(f, segments, filter_aizuchi, acc) ==
    IF segments = <<>> THEN acc
    ELSE LET segment == Head(segments)
             text == strip(segment.text)
         IN  IF filter_aizuchi /\ is_aizuchi(f, text)
             THEN collect_segments(f, Tail(segments), filter_aizuchi,
                      [acc EXCEPT !.filtered_count = @ + 1])
             ELSE collect_segments(f, Tail(segments), filter_aizuchi,
                      [acc EXCEPT !.text_parts = Append(@, text),
                                  !.total_logprob = @ + segment.avg_logprob,
                                  !.segment_count = @ + 1])

NoSegments ==
    [text_parts |-> <<>>, total_logprob |-> 0, segment_count |-> 0,
     filtered_count |-> 0]

\* a confidence taken from the summed instead of the average log probability
confidence_of_sum(total_logprob, segment_count) ==
    IF segment_count > 0
    THEN LET sum_logprob == Div(total_logprob, 10)
         IN  RMin(FromInt(1),
                  RMax(FromInt(0),
                       RAdd(FromInt(1), Div(sum_logprob.n, sum_logprob.d * 3))))
    ELSE FromInt(0)

\* confidence from the average log probability; total_logprob is in 0.1
confidence_of(total_logprob, segment_count) ==
    IF segment_count > 0
    THEN LET avg_logprob == Div(total_logprob, 10 * segment_count)
         IN  RMin(FromInt(1),
                  RMax(FromInt(0),
                       RAdd(FromInt(1), Div(avg_logprob.n, avg_logprob.d * 3))))
    ELSE FromInt(0)

\* the except clause of _transcribe_local / _transcribe_cloud: the record
\* call it makes before re-raising
\* an except clause that re-raises without recording
on_exception_unrecorded(elapsed) == <<>>

on_exception(elapsed) == <<RecordArgs(elapsed, FALSE, 0)>>

\* the exception the except clause lets out ("raise")
\* an except clause that wraps the error in its own
reraise_wrapped(e) == Raise("RuntimeError: transcription failed")

reraise(e) == Raise(e)

\* the success flag of the record call of a completed attempt
\* success taken to mean "no exception"
is_success_always(text) == TRUE

is_success(text) == Len(text) > 0

\* what a transcribe call did besides returning: the record calls it made,
\* the filter counters and provider object it left, the providers it invoked
Outcome(res, records, hallucination_stats, provider, local_calls, cloud_calls) ==
    [result |-> res, records |-> records,
     hallucination_stats |-> hallucination_stats, cloud_provider |-> provider,
     local_calls |-> local_calls, cloud_calls |-> cloud_calls]

\* the try statement of _transcribe_local.  svc: the service's fields; req:
\* the arguments; env: what the model does (raises, or yields segments and
\* info.duration) and the elapsed time measured.
local_attempt(svc, req, env) ==
    IF env.raises # None
    THEN Outcome(reraise(env.raises), on_exception(env.elapsed),
                 svc.hallucination_filter.stats, svc.cloud_provider, 1, 0)
    ELSE LET c == collect_segments(svc.aizuchi_filter, env.segments,
                                   req.filter_aizuchi, NoSegments)
             joined == strip(join(<<" ">>, c.text_parts))
             h == filter(svc.hallucination_filter, joined)
             confidence == confidence_of(c.total_logprob, c.segment_count)
         IN  Outcome(Return(h.text, confidence, env.elapsed),
                     <<RecordArgs(env.elapsed, is_success(h.text), env.duration)>>,
                     h.stats, svc.cloud_provider, 1, 0)

\* _transcribe_local without its "model is None" check
transcribe_local_unchecked(svc, req, env) == local_attempt(svc, req, env)

\* _transcribe_local
transcribe_local(svc, req, env) ==
    IF svc.model = None
    THEN Outcome(Raise(NotReadyLocal), <<>>, svc.hallucination_filter.stats,
                 svc.cloud_provider, 0, 0)
    ELSE local_attempt(svc, req, env)

\* a cloud path that treats the provider's text as one segment and drops it
\* when it is a filler
cloud_attempt_dropping_fillers(svc, req, env) ==
    LET p == provider_transcribe(svc.cloud_provider, env) IN
    IF p.raised # None
    THEN Outcome(reraise(p.raised), on_exception(env.elapsed),
                 svc.hallucination_filter.stats, p.provider, 0, 1)
    ELSE LET kept == IF req.filter_aizuchi /\ is_aizuchi(svc.aizuchi_filter, p.text)
                     THEN <<>> ELSE p.text
             h == filter(svc.hallucination_filter, kept)
         IN  Outcome(Return(h.text, p.confidence, p.processing_time),
                     <<RecordArgs(p.processing_time, is_success(h.text), 0)>>,
                     h.stats, p.provider, 0, 1)

\* the try statement of _transcribe_cloud.  env: what the provider does,
\* and the elapsed time the except clause measures.
cloud_attempt(svc, req, env) ==
    LET p == provider_transcribe(svc.cloud_provider, env) IN
    IF p.raised # None
    THEN Outcome(reraise(p.raised), on_exception(env.elapsed),
                 svc.hallucination_filter.stats, p.provider, 0, 1)
    ELSE LET h == filter(svc.hallucination_filter, p.text) IN
         Outcome(Return(h.text, p.confidence, p.processing_time),
                 <<RecordArgs(p.processing_time, is_success(h.text), 0)>>,
                 h.stats, p.provider, 0, 1)

\* _transcribe_cloud
transcribe_cloud(svc, req, env) ==
    IF svc.cloud_provider = NoProvider
    THEN Outcome(Raise(NotReadyCloud), <<>>, svc.hallucination_filter.stats,
                 svc.cloud_provider, 0, 0)
    ELSE cloud_attempt(svc, req, env)

\* transcribe: dispatch on the configured provider kind
transcribe(svc, req, env) ==
    IF IsCloud(svc.provider_type) THEN transcribe_cloud(svc, req, env)
    ELSE transcribe_local(svc, req, env)

\* is_ready()
is_ready(svc, init) ==
    IF IsCloud(svc.provider_type)
    THEN svc.cloud_provider # NoProvider /\ provider_is_ready(svc.cloud_provider, init).value
    ELSE svc.model # None

\* load_model under the environment's answer `init` to constructing the
\* WhisperModel / the API client
load_model(svc, key_present, init) ==
    IF svc.provider_type = "local"
    THEN IF init = "ok"
         THEN [model |-> "WhisperModel", cloud_provider |-> svc.cloud_provider,
               result |-> Return(<<>>, FromInt(0), 0)]
         ELSE [model |-> svc.model, cloud_provider |-> svc.cloud_provider,
               result |-> Raise(init)]
    ELSE IF IsCloud(svc.provider_type)
    THEN LET c == create_provider(svc.provider_type, key_present) IN
         IF c.raised # None
         THEN [model |-> svc.model, cloud_provider |-> svc.cloud_provider,
               result |-> Raise(c.raised)]
         ELSE LET r == provider_is_ready(c.provider, init) IN
              [model |-> svc.model, cloud_provider |-> r.provider,
               result |-> IF r.value THEN Return(<<>>, FromInt(0), 0)
                          ELSE Raise("RuntimeError: Failed to initialize provider")]
    ELSE [model |-> svc.model, cloud_provider |-> svc.cloud_provider,
          result |-> Raise("ValueError: Unknown provider type")]

(***************************************************************************)
(* Environment: what the model, the cloud API and the clock may answer     *)
(***************************************************************************)
Threads == 1..NThreads

\* elapsed times measured with time.time(), in 0.1 s
ElapsedTimes == {10, 20}

\* info.duration in 0.1 s; 0 also stands for an info without the attribute
AudioDurations == {0, 30}

ProviderErrors == {"Exception: Test error", "ConnectionError: network"}

\* the answers to constructing WhisperModel / importing and constructing
\* the API client
InitOutcomes == {"ok", "ImportError", "OSError: cannot load"}

Seg(text, avg_logprob) == [text |-> text, avg_logprob |-> avg_logprob]

TextUn == <<"{u}", "{n}">>
TextTest == <<"{ko}", "{re}", "{ha}", "{TE}", "{SU}", "{TO}", "{de}", "{su}">>
TextAbc == <<"a", "b", "c">>

\* segment sequences the local model yields; avg_logprob in 0.1
SegmentInputs ==
    { <<>>,
      <<Seg(TextUn, -1), Seg(TextTest, -4)>>,
      <<Seg(<<" ">> \o TextTest, -15)>>,
      <<Seg(TextAbc, -30)>>,
      <<Seg(TextAbc, 0)>>,
      <<Seg(TextAbc, -45)>>,
      <<Seg(TextAbc, 5)>>,
      <<Seg(<<" ">>, -2)>>,
      <<Seg(TextAbc, -10), Seg(<<>>, -20), Seg(TextUn, -30)>> }

LocalEnvs ==
    [raises : ProviderErrors, segments : {<<>>}, duration : {0},
     elapsed : ElapsedTimes]
    \cup [raises : {None}, segments : SegmentInputs, duration : AudioDurations,
          elapsed : ElapsedTimes]

\* texts the cloud API returns (before the provider strips them)
CloudTexts == {<<>>, TextAbc, <<" ">>, TextUn \o <<"\n">>}

CloudEnvs ==
    [init : InitOutcomes, raises : ProviderErrors, text : {<<>>},
     time : {0}, elapsed : ElapsedTimes]
    \cup [init : InitOutcomes, raises : {None}, text : CloudTexts,
          time : ElapsedTimes, elapsed : {0}]

(***************************************************************************)
(* The service as a state machine                                          *)
(***************************************************************************)
\* the fields of the WhisperService object
Svc ==
    [provider_type |-> provider_type, model |-> model,
     cloud_provider |-> cloud_provider, stats |-> stats,
     aizuchi_filter |-> aizuchi_filter,
     hallucination_filter |-> hallucination_filter]

NoRequest == [op |-> "none"]

\* no call made yet, no thread running
NoCallsYet ==
    /\ calls = 0
    /\ history = <<>>
    /\ request = NoRequest
    /\ result = NoResult
    /\ invoked = [local |-> 0, cloud |-> 0]
    /\ pc = [t \in Threads |-> "idle"]
    /\ frame = [t \in Threads |-> [line |-> 0, tmp |-> 0, args |-> RecordArgs(0, FALSE, 0)]]

\* WhisperService.__init__(config), for each provider kind and with or
\* without the provider's API key in the configuration
Constructed ==
    /\ provider_type \in {"local", "groq", "openai"}
    /\ api_key \in BOOLEAN
    /\ stats = TranscriptionStats
    /\ aizuchi_filter = AizuchiFilter(15, FALSE)
    /\ hallucination_filter = HallucinationFilter(FALSE, 3, 20)
    /\ hotwords = HotwordsManager(NoDocument, <<>>)
    /\ NoCallsYet

Init ==
    /\ Constructed
    /\ model = None
    /\ cloud_provider = NoProvider

LoadModel ==
    \E init \in InitOutcomes :
        LET r == load_model(Svc, api_key, init) IN
        /\ model' = r.model
        /\ cloud_provider' = r.cloud_provider
        /\ request' = [op |-> "load_model", env |-> init]
        /\ result' = r.result
        /\ UNCHANGED <<hotwords, provider_type, api_key, stats, aizuchi_filter,
                       hallucination_filter, calls, history, invoked, pc, frame>>

Transcribe ==
    /\ calls < MaxRequests
    /\ \E filter_aizuchi \in BOOLEAN :
       \E env \in (IF IsCloud(provider_type) THEN CloudEnvs ELSE LocalEnvs) :
        LET req == [op |-> "transcribe", filter_aizuchi |-> filter_aizuchi, env |-> env]
            r == transcribe(Svc, req, env)
        IN  /\ stats' = apply_records(stats, r.records)
            /\ hallucination_filter' =
                   [hallucination_filter EXCEPT !.stats = r.hallucination_stats]
            /\ cloud_provider' = r.cloud_provider
            /\ invoked' = [local |-> invoked.local + r.local_calls,
                           cloud |-> invoked.cloud + r.cloud_calls]
            /\ calls' = calls + 1
            /\ request' = req
            /\ result' = r.result
            /\ UNCHANGED <<hotwords, provider_type, api_key, model, aizuchi_filter, history,
                           pc, frame>>

Next == LoadModel \/ Transcribe

Spec == Init /\ [][Next]_vars

(***************************************************************************)
(* A bare TranscriptionStats object and its callers                        *)
(***************************************************************************)
\* stats.record(processing_time, success, audio_duration_seconds)
RecordCall ==
    /\ calls < MaxRequests + 1
    /\ \E processing_time \in ElapsedTimes, success \in BOOLEAN,
          audio_duration_seconds \in AudioDurations :
        LET args == RecordArgs(processing_time, success, audio_duration_seconds) IN
        /\ stats' = record(stats, processing_time, success, audio_duration_seconds)
        /\ history' = Append(history, args)
        /\ calls' = calls + 1
        /\ request' = [op |-> "record", args |-> args]
        /\ UNCHANGED <<hotwords, provider_type, api_key, model, cloud_provider, aizuchi_filter,
                       hallucination_filter, result, invoked, pc, frame>>

\* stats = TranscriptionStats()
InitStats == Init /\ provider_type = "local" /\ ~api_key

NextStats == RecordCall

SpecStats == InitStats /\ [][NextStats]_vars

(***************************************************************************)
(* Overlapping transcribe calls: threads inside TranscriptionStats.record  *)
(***************************************************************************)
\* the attribute the statement at `line` of record updates, and by how much;
\* lines 1..4 are "total_requests += 1", "total_processing_time += ...",
\* "total_audio_seconds += ..." and the increment under "if success / else"
LastRecordLine == 4

record_field(line, args) ==
    IF line = 1 THEN "total_requests"
    ELSE IF line = 2 THEN "total_processing_time"
    ELSE IF line = 3 THEN "total_audio_seconds"
    ELSE IF args.success THEN "successful_requests" ELSE "failed_requests"

record_delta(line, args) ==
    IF line = 2 THEN args.processing_time
    ELSE IF line = 3 THEN args.audio_duration_seconds
    ELSE 1

\* a service whose load_model has succeeded
InitLoaded ==
    /\ Constructed
    /\ IF IsCloud(provider_type)
       THEN /\ api_key
            /\ model = None
            /\ cloud_provider =
                   [kind |-> provider_type, client |-> "client", ready |-> TRUE]
       ELSE /\ model = "WhisperModel"
            /\ cloud_provider = NoProvider

\* thread t calls transcribe and runs it up to its stats.record call
ThreadCall(t) ==
    /\ pc[t] = "idle"
    /\ \E filter_aizuchi \in BOOLEAN :
       \E env \in (IF IsCloud(provider_type) THEN CloudEnvs ELSE LocalEnvs) :
        LET req == [op |-> "transcribe", filter_aizuchi |-> filter_aizuchi, env |-> env]
            r == transcribe(Svc, req, env)
        IN  /\ r.records # <<>>
            /\ frame' = [frame EXCEPT ![t] = [line |-> 1, tmp |-> 0, args |-> r.records[1]]]
            /\ pc' = [pc EXCEPT ![t] = "load"]
            /\ invoked' = [local |-> invoked.local + r.local_calls,
                           cloud |-> invoked.cloud + r.cloud_calls]
            /\ calls' = calls + 1
            /\ UNCHANGED <<hotwords, provider_type, api_key, model, cloud_provider, stats,
                           aizuchi_filter, hallucination_filter, history, request,
                           result>>

\* the read of "self.<field> += delta"
ThreadLoad(t) ==
    /\ pc[t] = "load"
    /\ frame' = [frame EXCEPT ![t].tmp = stats[record_field(frame[t].line, frame[t].args)]]
    /\ pc' = [pc EXCEPT ![t] = "store"]
    /\ UNCHANGED <<hotwords, provider_type, api_key, model, cloud_provider, stats, aizuchi_filter,
                   hallucination_filter, calls, history, request, result, invoked>>

\* the write of "self.<field> += delta"; after the last one the call returns
ThreadStore(t) ==
    /\ pc[t] = "store"
    /\ stats' = [stats EXCEPT ![record_field(frame[t].line, frame[t].args)] =
                     frame[t].tmp + record_delta(frame[t].line, frame[t].args)]
    /\ IF frame[t].line < LastRecordLine
       THEN /\ frame' = [frame EXCEPT ![t].line = @ + 1]
            /\ pc' = [pc EXCEPT ![t] = "load"]
       ELSE /\ frame' = frame
            /\ pc' = [pc EXCEPT ![t] = "done"]
    /\ UNCHANGED <<hotwords, provider_type, api_key, model, cloud_provider, aizuchi_filter,
                   hallucination_filter, calls, history, request, result, invoked>>

NextThreads == \E t \in Threads : ThreadCall(t) \/ ThreadLoad(t) \/ ThreadStore(t)

SpecThreads == InitLoaded /\ [][NextThreads]_vars

(***************************************************************************)
(* One local transcribe call over generated segment sequences              *)
(***************************************************************************)
\* segments the local model may yield; avg_logprob in 0.1
SegmentPool ==
    { Seg(TextAbc, -45), Seg(TextAbc, -30), Seg(TextAbc, -15), Seg(TextAbc, 0),
      Seg(TextAbc, 5), Seg(TextUn, -1), Seg(<<" ">> \o TextTest, -4),
      Seg(<<" ">>, -20) }

SegmentSeqs == UNION {[1..n -> SegmentPool] : n \in 0..MaxSegments}

InitLocal == InitLoaded /\ provider_type = "local" /\ ~api_key

TranscribeLocal ==
    /\ calls = 0
    /\ \E filter_aizuchi \in BOOLEAN, segments \in SegmentSeqs,
          duration \in AudioDurations :
        LET env == [raises |-> None, segments |-> segments, duration |-> duration,
                    elapsed |-> 10]
            req == [op |-> "transcribe", filter_aizuchi |-> filter_aizuchi, env |-> env]
            r == transcribe(Svc, req, env)
        IN  /\ stats' = apply_records(stats, r.records)
            /\ hallucination_filter' =
                   [hallucination_filter EXCEPT !.stats = r.hallucination_stats]
            /\ cloud_provider' = r.cloud_provider
            /\ invoked' = [local |-> invoked.local + r.local_calls,
                           cloud |-> invoked.cloud + r.cloud_calls]
            /\ calls' = calls + 1
            /\ request' = req
            /\ result' = r.result
            /\ UNCHANGED <<hotwords, provider_type, api_key, model, aizuchi_filter, history,
                           pc, frame>>

NextLocal == TranscribeLocal

SpecLocal == InitLocal /\ [][NextLocal]_vars

(***************************************************************************)
(* A HallucinationFilter object and its callers                            *)
(***************************************************************************)
JiMakuTeiKyou == <<"{kanji:ji}", "{kanji:maku}", "{kanji:tei}", "{kanji:kyou}">>
OTsukareSamaDeshita ==
    <<"{o}", "{kanji:tsuka}", "{re}", "{kanji:sama}", "{de}", "{shi}", "{ta}">>

\* texts handed to filter
FilterTexts ==
    { <<>>, <<"a">>, TextAbc, TextTest, TextUn,
      <<"a", "b", "c", "d", "e", "f">>,
      <<"a", "b", "c", "a", "b", "c">>,
      <<"a", "b", "c", "a", "b", "c", "a", "b", "c", "a", "b", "c">>,
      <<"a", "b", "c", "a", "b", "c", "a", "b", "c", "a", "b", "x">>,
      <<"a", "b", "a", "b", "a", "b">>, <<"a", "b", "a", "b">>,
      <<"a", "b", "a", "b", "c">>, <<" ", "a", "b", "a", "b", " ">>,
      <<"a", "a", "a", "a", "a", "a">>,
      <<"a", "b", "a", "b", "a", "b", "a", "b", "c", "c">>,
      <<"a", "b", "a", "b", "a", "b", "c", "c", "c">>,
      <<"a", " ", "a", " ", "a">>, <<"a", " ", "a", " ", "a", " ", "a">>,
      <<"{n}", " ", "{n}", " ", "{n}", " ", "{n}">>,
      <<"a", "b", "a", "b", "a", "b", " ", "a", "b", "a", "b", "a", "b", " ",
        "a", "b", "a", "b", "a", "b">>, <<"a", "b">>,
      <<" ", "a", " ", "a", " ", "a">>,
      <<".", ".", ".", ".", ".", ".">>,
      <<"m", "u", "s", "i", "c", " ", "m", "u", "s", "i", "c", " ",
        "m", "u", "s", "i", "c">>,
      <<"a", "b", " ", "a", "b", " ", "a", "b">>,
      <<"a", "b", " ", "a", "b", " ", "a", "c">>,
      <<" ", "a", "b", " ", "a", "b", "{sp}", "a", "b", " ">>,
      <<"a", "b", "c", " ", "a", "b", "c">>, <<" ", "a", "b", "c">>,
      <<".">>, <<".", ".", ".">>, <<",", ",">>, <<".", ",">>,
      <<" ">>, <<"{sp}", " ">>, <<"\n">>,
      <<"{n}">>, <<" ", "{o}", " ">>, <<"{o}", "{n}">>,
      <<"m", "u", "s", "i", "c">>, <<"a", " ", "M", "u", "S", "i", "C", "!">>,
      <<"a", "{note}", "b">>, <<"{notes}">>,
      <<"[", "{kanji:on}", "{kanji:gaku}", "]">>,
      <<"a", "[", "{kanji:haku}", "{kanji:shu}", "]", "b">>,
      JiMakuTeiKyou, JiMakuTeiKyou \o TextAbc, <<"a">> \o JiMakuTeiKyou,
      JiMakuTeiKyou \o <<"\n">> \o TextAbc,
      OTsukareSamaDeshita, OTsukareSamaDeshita \o <<"\n">>,
      OTsukareSamaDeshita \o TextAbc }

\* HallucinationFilter(enabled, min_repetition_count, max_repetition_length)
InitFilter ==
    /\ provider_type = "local"
    /\ api_key = FALSE
    /\ model = None
    /\ cloud_provider = NoProvider
    /\ stats = TranscriptionStats
    /\ aizuchi_filter = AizuchiFilter(15, TRUE)
    /\ \E enabled \in BOOLEAN, thresholds \in {<<3, 20>>, <<2, 4>>} :
          hallucination_filter =
              HallucinationFilter(enabled, thresholds[1], thresholds[2])
    /\ hotwords = <<>>
    /\ NoCallsYet

\* hallucination_filter.filter(text)
FilterCall ==
    /\ calls < MaxFilterCalls
    /\ \E text \in FilterTexts :
        LET r == filter(hallucination_filter, text) IN
        /\ hallucination_filter' = [hallucination_filter EXCEPT !.stats = r.stats]
        /\ calls' = calls + 1
        /\ request' = [op |-> "filter", text |-> text]
        /\ result' = [kind |-> "ok", text |-> r.text, was_filtered |-> r.was_filtered,
                      reason |-> r.reason]
        /\ history' = Append(history, r.was_filtered)
        /\ UNCHANGED <<hotwords, provider_type, api_key, model, cloud_provider, stats,
                       aizuchi_filter, invoked, pc, frame>>

\* hallucination_filter.get_stats()
FilterStatsQuery ==
    /\ request.op # "get_stats"
    /\ request' = [op |-> "get_stats"]
    /\ result' = [kind |-> "ok", value |-> get_stats(hallucination_filter)]
    /\ UNCHANGED <<hotwords, provider_type, api_key, model, cloud_provider, stats,
                   aizuchi_filter, hallucination_filter, calls, history, invoked,
                   pc, frame>>

\* hallucination_filter.detect_repetition(text)
DetectRepetitionCall ==
    /\ calls < MaxFilterCalls
    /\ \E text \in FilterTexts :
        LET r == detect_repetition(hallucination_filter, text) IN
        /\ calls' = calls + 1
        /\ request' = [op |-> "detect_repetition", text |-> text]
        /\ result' = [kind |-> "ok", is_repetition |-> r.is_repetition,
                      phrase |-> r.phrase]
        /\ UNCHANGED <<hotwords, provider_type, api_key, model, cloud_provider, stats,
                       aizuchi_filter, hallucination_filter, history, invoked,
                       pc, frame>>

NextFilter == FilterCall \/ FilterStatsQuery \/ DetectRepetitionCall

SpecFilter == InitFilter /\ [][NextFilter]_vars

(***************************************************************************)
(* An AizuchiFilter object and its callers                                 *)
(***************************************************************************)
SixteenW ==
    <<"w", "w", "w", "w", "w", "w", "w", "w", "w", "w", "w", "w", "w", "w", "w", "w">>

\* fragments handed to is_aizuchi
AizuchiTexts ==
    { <<>>, <<" ">>, <<"{sp}", "\n">>, TextUn, TextUn \o <<"{.}">>,
      <<" ">> \o TextUn \o <<"{.}", "{,}", " ">>, TextUn \o <<"\n">>,
      TextUn \o TextAbc, TextAbc, TextTest, <<"{n}">>,
      <<"{n}", "{-}", "{~}", "{.}">>, <<"{ha}", "{i}">>, <<"w">>, <<"w", "w", "{.}">>,
      <<"(", "{kanji:warai}", ")">>, SubSeq(SixteenW, 1, 15), SixteenW,
      <<" ">> \o SubSeq(SixteenW, 1, 15) \o <<" ">> }

\* patterns removed from and added to a filter
PatternPool == {DEFAULT_PATTERNS[1], DEFAULT_PATTERNS[26]}

\* AizuchiFilter(max_length=..., enabled=...)
InitAizuchi ==
    /\ provider_type = "local"
    /\ api_key = FALSE
    /\ model = None
    /\ cloud_provider = NoProvider
    /\ stats = TranscriptionStats
    /\ \E max_length \in {15, 2}, enabled \in BOOLEAN :
          aizuchi_filter = AizuchiFilter(max_length, enabled)
    /\ hallucination_filter = HallucinationFilter(TRUE, 3, 20)
    /\ hotwords = <<>>
    /\ NoCallsYet

\* aizuchi_filter.is_aizuchi(text)
IsAizuchiCall ==
    /\ \E text \in AizuchiTexts :
        /\ request' = [op |-> "is_aizuchi", text |-> text]
        /\ result' = [kind |-> "ok", value |-> is_aizuchi(aizuchi_filter, text)]
    /\ UNCHANGED <<hotwords, provider_type, api_key, model, cloud_provider, stats,
                   aizuchi_filter, hallucination_filter, calls, history, invoked,
                   pc, frame>>

\* aizuchi_filter.add_pattern(pattern)
AddPattern ==
    /\ calls < MaxAizuchiCalls
    /\ \E pattern \in PatternPool :
        /\ aizuchi_filter' = add_pattern(aizuchi_filter, pattern)
        /\ request' = [op |-> "add_pattern", text |-> pattern]
        /\ result' = [kind |-> "ok", value |-> None]
    /\ calls' = calls + 1
    /\ UNCHANGED <<hotwords, provider_type, api_key, model, cloud_provider, stats,
                   hallucination_filter, history, invoked, pc, frame>>

\* aizuchi_filter.remove_pattern(pattern)
RemovePattern ==
    /\ calls < MaxAizuchiCalls
    /\ \E pattern \in PatternPool :
        LET r == remove_pattern(aizuchi_filter, pattern) IN
        /\ aizuchi_filter' = r.filter
        /\ request' = [op |-> "remove_pattern", text |-> pattern]
        /\ result' = IF r.raised # None THEN Raise(r.raised)
                     ELSE [kind |-> "ok", value |-> r.value]
    /\ calls' = calls + 1
    /\ UNCHANGED <<hotwords, provider_type, api_key, model, cloud_provider, stats,
                   hallucination_filter, history, invoked, pc, frame>>

NextAizuchi == IsAizuchiCall \/ AddPattern \/ RemovePattern

SpecAizuchi == InitAizuchi /\ [][NextAizuchi]_vars

(***************************************************************************)
(* A HotwordsManager object and its callers                                *)
(***************************************************************************)
TermA == <<"A">>
TermB == <<"B">>
TermX == <<"X">>
TermY == <<"Y">>
Terms == {TermA, TermB, TermX, TermY}

\* the hotwords argument of the constructor
InitialLists == {<<>>, <<TermA>>, <<TermA, TermB>>, <<TermB, TermA>>, <<TermA, TermA>>}

\* what the file at a path may hold
Documents ==
    { NoDocument,
      Document("invalid", "absent", <<>>),
      Document("array", "absent", <<>>),
      Document("object", "absent", <<>>),
      Document("object", "null", <<>>),
      Document("object", "number", <<>>),
      Document("object", "string", <<"X", "Y">>),
      Document("object", "list", <<>>),
      Document("object", "list", <<TermA, TermX>>),
      Document("object", "list", <<TermX, TermX, TermB>>) }

\* values of the WHISPER_HOTWORDS environment variable
EnvValues ==
    { <<>>, <<",">>, <<"A", ",", "X">>, <<"B", ",", "B">>,
      <<" ", "X", " ", ",", " ", ",", "Y", " ">> }

\* arguments of add_many and of merge_with_request_hotwords
WordLists ==
    { <<>>, <<TermX>>, <<TermX, TermY>>, <<TermX, TermX>>, <<TermA, TermX>>,
      <<TermY, TermA, TermX>> }

MaxTotals == {0, 1, 2, 3, 4, 50}

\* HotwordsManager(config_path=..., hotwords=...)
InitHotwords ==
    /\ provider_type = "local"
    /\ api_key = FALSE
    /\ model = None
    /\ cloud_provider = NoProvider
    /\ stats = TranscriptionStats
    /\ aizuchi_filter = AizuchiFilter(15, FALSE)
    /\ hallucination_filter = HallucinationFilter(FALSE, 3, 20)
    /\ \E doc \in Documents, initial \in InitialLists :
          hotwords = HotwordsManager(doc, initial)
    /\ NoCallsYet

HotwordsUnchanged ==
    UNCHANGED <<provider_type, api_key, model, cloud_provider, stats,
                aizuchi_filter, hallucination_filter, history, invoked, pc, frame>>

\* hotwords.add(word)
Add ==
    /\ calls < MaxHotwordCalls
    /\ \E word \in Terms :
        LET r == add(hotwords, word) IN
        /\ hotwords' = r.hotwords
        /\ request' = [op |-> "add", arg |-> word]
        /\ result' = [kind |-> "ok", value |-> r.value]
    /\ calls' = calls + 1
    /\ HotwordsUnchanged

\* hotwords.add_many(words)
AddMany ==
    /\ calls < MaxHotwordCalls
    /\ \E words \in WordLists :
        LET r == add_many(hotwords, words) IN
        /\ hotwords' = r.hotwords
        /\ request' = [op |-> "add_many", arg |-> words]
        /\ result' = [kind |-> "ok", value |-> r.value]
    /\ calls' = calls + 1
    /\ HotwordsUnchanged

\* hotwords.remove(word)
Remove ==
    /\ calls < MaxHotwordCalls
    /\ \E word \in Terms :
        LET r == remove(hotwords, word) IN
        /\ hotwords' = r.hotwords
        /\ request' = [op |-> "remove", arg |-> word]
        /\ result' = [kind |-> "ok", value |-> r.value]
    /\ calls' = calls + 1
    /\ HotwordsUnchanged

\* hotwords.clear()
Clear ==
    /\ calls < MaxHotwordCalls
    /\ hotwords' = clear(hotwords)
    /\ request' = [op |-> "clear", arg |-> <<>>]
    /\ result' = [kind |-> "ok", value |-> None]
    /\ calls' = calls + 1
    /\ HotwordsUnchanged

\* hotwords.load_from_file(path), the file holding doc
LoadFromFile ==
    /\ calls < MaxHotwordCalls
    /\ \E doc \in Documents :
        /\ hotwords' = load_from_file(hotwords, doc)
        /\ request' = [op |-> "load_from_file", arg |-> doc]
        /\ result' = [kind |-> "ok", value |-> None]
    /\ calls' = calls + 1
    /\ HotwordsUnchanged

\* hotwords.load_from_env(), the variable holding value
LoadFromEnv ==
    /\ calls < MaxHotwordCalls
    /\ \E value \in EnvValues :
        /\ hotwords' = load_from_env(hotwords, value)
        /\ request' = [op |-> "load_from_env", arg |-> value]
        /\ result' = [kind |-> "ok", value |-> None]
    /\ calls' = calls + 1
    /\ HotwordsUnchanged

\* hotwords.merge_with_request_hotwords(request_hotwords, max_total)
MergeWithRequest ==
    /\ request.op # "merge_with_request_hotwords"
    /\ \E request_hotwords \in WordLists, max_total \in MaxTotals :
        /\ request' = [op |-> "merge_with_request_hotwords",
                       arg |-> request_hotwords, max_total |-> max_total]
        /\ result' = [kind |-> "ok",
                      value |-> merge_with_request_hotwords(hotwords, request_hotwords,
                                                            max_total)]
    /\ UNCHANGED <<hotwords, calls>>
    /\ HotwordsUnchanged

NextHotwords ==
    \/ Add
    \/ AddMany
    \/ Remove
    \/ Clear
    \/ LoadFromFile
    \/ LoadFromEnv
    \/ MergeWithRequest

SpecHotwords == InitHotwords /\ [][NextHotwords]_vars

(***************************************************************************)
(* One cloud provider object: create_provider, then is_ready and             *)
(* transcribe called from several threads.  _ensure_client runs as its     *)
(* statements: the test of self._client, the construction of the client,   *)
(* the assignment of self._client and that of self._ready.                 *)
(***************************************************************************)
ProviderKinds == {"groq", "openai", "local", "azure"}

\* an API key of the configuration: None, "" or a key
ApiKeys == {None, "", "key"}

\* "if not key" is false
truthy(key) == key \notin {None, ""}

\* entries of the log: a provider or a client constructed, a value returned
Event(event, thread, value) == [event |-> event, thread |-> thread, value |-> value]

InitProvider ==
    /\ provider_type = "local"
    /\ api_key = FALSE
    /\ model = None
    /\ cloud_provider = NoProvider
    /\ stats = TranscriptionStats
    /\ aizuchi_filter = AizuchiFilter(15, FALSE)
    /\ hallucination_filter = HallucinationFilter(FALSE, 3, 20)
    /\ hotwords = <<>>
    /\ NoCallsYet

ProviderUnchanged ==
    UNCHANGED <<provider_type, api_key, model, stats, aizuchi_filter,
                hallucination_filter, hotwords>>

\* create_provider(kind, key, key)
CreateProvider ==
    /\ cloud_provider = NoProvider
    /\ \E kind \in ProviderKinds, key \in ApiKeys :
        LET c == create_provider(kind, truthy(key)) IN
        /\ cloud_provider' = c.provider
        /\ request' = [op |-> "create_provider", kind |-> kind, key |-> key]
        /\ result' = IF c.raised # None THEN Raise(c.raised)
                     ELSE [kind |-> "ok", value |-> c.provider]
        /\ history' = IF c.provider # NoProvider
                      THEN Append(history, Event("provider", 0, key))
                      ELSE history
    /\ UNCHANGED <<calls, invoked, pc, frame>>
    /\ ProviderUnchanged

\* thread t calls is_ready() or transcribe(...) of the provider
ProviderCall(t) ==
    /\ cloud_provider # NoProvider
    /\ pc[t] \in {"idle", "done"}
    /\ calls < MaxProviderCalls
    /\ \E op \in {"is_ready", "transcribe"} :
        frame' = [frame EXCEPT ![t] = [line |-> 0, tmp |-> 0, args |-> [op |-> op]]]
    /\ pc' = [pc EXCEPT ![t] = "check"]
    /\ calls' = calls + 1
    /\ UNCHANGED <<cloud_provider, history, request, result, invoked>>
    /\ ProviderUnchanged

\* "if self._client is None:"
EnsureCheck(t) ==
    /\ pc[t] = "check"
    /\ pc' = [pc EXCEPT ![t] = IF cloud_provider.client = None THEN "construct"
                               ELSE "finish"]
    /\ UNCHANGED <<cloud_provider, calls, history, request, result, invoked, frame>>
    /\ ProviderUnchanged

\* the import and the construction of the client; an exception ends the call
EnsureConstruct(t) ==
    /\ pc[t] = "construct"
    /\ \E init \in InitOutcomes :
        LET e == ensure_client(Provider(cloud_provider.kind), init)
            op == frame[t].args.op
        IN  IF e.raised = None
            THEN /\ history' = Append(history, Event("client", t, e.provider.client))
                 /\ pc' = [pc EXCEPT ![t] = "assign_client"]
                 /\ UNCHANGED <<request, result>>
            ELSE /\ history' = IF op = "is_ready"
                               THEN Append(history, Event("is_ready", t, FALSE))
                               ELSE history
                 /\ pc' = [pc EXCEPT ![t] = "done"]
                 /\ request' = [op |-> op, thread |-> t]
                 /\ result' = IF op = "is_ready" THEN [kind |-> "ok", value |-> FALSE]
                              ELSE Raise(e.raised)
    /\ UNCHANGED <<cloud_provider, calls, invoked, frame>>
    /\ ProviderUnchanged

\* "self._client = ..."
EnsureAssignClient(t) ==
    /\ pc[t] = "assign_client"
    /\ cloud_provider' = [cloud_provider EXCEPT !.client = "client"]
    /\ pc' = [pc EXCEPT ![t] = "assign_ready"]
    /\ UNCHANGED <<calls, history, request, result, invoked, frame>>
    /\ ProviderUnchanged

\* "self._ready = True"
EnsureAssignReady(t) ==
    /\ pc[t] = "assign_ready"
    /\ cloud_provider' = [cloud_provider EXCEPT !.ready = TRUE]
    /\ pc' = [pc EXCEPT ![t] = "finish"]
    /\ UNCHANGED <<calls, history, request, result, invoked, frame>>
    /\ ProviderUnchanged

\* what follows _ensure_client: "return self._ready", or the API call
ProviderFinish(t) ==
    /\ pc[t] = "finish"
    /\ pc' = [pc EXCEPT ![t] = "done"]
    /\ request' = [op |-> frame[t].args.op, thread |-> t]
    /\ IF frame[t].args.op = "is_ready"
       THEN /\ result' = [kind |-> "ok", value |-> cloud_provider.ready]
            /\ history' = Append(history, Event("is_ready", t, cloud_provider.ready))
            /\ UNCHANGED invoked
       ELSE /\ \E env \in CloudEnvs :
                LET r == provider_transcribe(cloud_provider, env) IN
                /\ env.init = "ok"
                /\ result' = IF r.raised # None THEN Raise(r.raised)
                             ELSE Return(r.text, r.confidence, r.processing_time)
                /\ invoked' = [invoked EXCEPT !.cloud = @ + 1]
            /\ UNCHANGED history
    /\ UNCHANGED <<cloud_provider, calls, frame>>
    /\ ProviderUnchanged

NextProvider ==
    \/ CreateProvider
    \/ \E t \in Threads :
        \/ ProviderCall(t)
        \/ EnsureCheck(t)
        \/ EnsureConstruct(t)
        \/ EnsureAssignClient(t)
        \/ EnsureAssignReady(t)
        \/ ProviderFinish(t)

SpecProvider == InitProvider /\ [][NextProvider]_vars

(***************************************************************************)
(* One caller inside _transcribe_local, statement by statement: the prompt *)
(* is built, the model is called, the segments are consumed one by one,    *)
(* the kept texts are joined, the hallucination filter runs, the call is   *)
(* recorded and returns.  history logs what the current call has done.     *)
(***************************************************************************)
\* base_prompt, and the " <vocabulary>: " that precedes the terms
base_prompt ==
    <<"{ko}", "{re}", "{ha}", "{kanji:ni}", "{kanji:hon}", "{kanji:go}", "{no}",
      "{kanji:kai}", "{kanji:wa}", "{de}", "{su}", "{.}",
      "D", "i", "s", "c", "o", "r", "d", "{no}", "{BO}", "{I}", "{SU}", "{CHI}",
      "{xYA}", "{N}", "{NE}", "{RU}", "{de}", "{kanji:hana}", "{shi}", "{te}",
      "{i}", "{ma}", "{su}", "{.}">>
VocabularyLabel == <<" ", "{kanji:you}", "{kanji:go}", ":", " ">>

\* the initial_prompt argument: None, or a str
NoPrompt == [is_none |-> TRUE, text |-> <<>>]
PromptOf(text) == [is_none |-> FALSE, text |-> text]

\* a prompt that leaves the vocabulary out of the Japanese prompt
initial_prompt_without_terms(list, language, additional_hotwords) ==
    LET hotwords_prompt == merge_with_request_hotwords(list, additional_hotwords, 50)
    IN  IF language = "ja" THEN PromptOf(base_prompt)
        ELSE IF hotwords_prompt # <<>> THEN PromptOf(hotwords_prompt) ELSE NoPrompt

\* the initial_prompt _transcribe_local builds; additional_hotwords None is <<>>
initial_prompt(list, language, additional_hotwords) ==
    LET hotwords_prompt == merge_with_request_hotwords(list, additional_hotwords, 50)
    IN  IF language = "ja"
        THEN IF hotwords_prompt # <<>>
             THEN PromptOf(base_prompt \o VocabularyLabel \o hotwords_prompt)
             ELSE PromptOf(base_prompt)
        ELSE IF hotwords_prompt # <<>> THEN PromptOf(hotwords_prompt) ELSE NoPrompt

\* a merge that works on the registry's own list instead of a copy
hotwords_after_merge_aliased(list, additional_hotwords) ==
    merge_words(list, additional_hotwords)

\* self.hotwords after merge_with_request_hotwords, which extends a copy
hotwords_after_merge(list, additional_hotwords) == list

\* the thread that makes the calls
Caller == CHOOSE t \in Threads : \A u \in Threads : t <= u

Languages == {"ja", "en"}

\* the additional_hotwords of a request; <<>> is None
RequestTerms == {<<>>, <<TermX>>, <<TermA, TermX>>}

Digits == <<"0", "1", "2", "3", "4", "5", "6", "7", "8", "9">>
NumberedTerm(k) == <<"T", Digits[(k \div 10) + 1], Digits[(k % 10) + 1]>>

\* a registry of more terms than a prompt takes
ManyTerms == [k \in 1..51 |-> NumberedTerm(k)]

\* the registry's terms when the service starts
Registries == {<<>>, <<TermA, TermB>>, ManyTerms}

StepSegmentPool == {Seg(TextUn, -1), Seg(<<" ">> \o TextTest, -4)}
StepSegmentSeqs == UNION {[1..n -> StepSegmentPool] : n \in 0..MaxSegments}

\* an entry of the log of the current call
Did(event, at, value) == [event |-> event, at |-> at, value |-> value]

\* the locals of the call, and earlier: the terms earlier requests supplied
Locals(req, earlier) ==
    [req |-> req, earlier |-> earlier, segments |-> <<>>, k |-> 0,
     acc |-> NoSegments, text |-> <<>>]

\* a loaded local service; the filters' enabled attributes as constructed
\* (off) or set on the objects (on)
InitSteps ==
    /\ provider_type = "local"
    /\ api_key = FALSE
    /\ model = "WhisperModel"
    /\ cloud_provider = NoProvider
    /\ stats = TranscriptionStats
    /\ \E enabled \in BOOLEAN :
          /\ aizuchi_filter = AizuchiFilter(15, enabled)
          /\ hallucination_filter = HallucinationFilter(enabled, 3, 20)
    /\ hotwords \in Registries
    /\ calls = 0
    /\ history = <<>>
    /\ request = NoRequest
    /\ result = NoResult
    /\ invoked = [local |-> 0, cloud |-> 0]
    /\ pc = [t \in Threads |-> "idle"]
    /\ frame = [t \in Threads |-> Locals(NoRequest, {})]

StepsUnchanged == UNCHANGED <<provider_type, api_key, model, cloud_provider, aizuchi_filter>>

\* transcribe(audio_path, language, filter_aizuchi, additional_hotwords) up to
\* the call of the model: the check of self.model and the prompt
LocalStart ==
    /\ pc[Caller] \in {"idle", "done"}
    /\ calls < MaxRequests
    /\ \E language \in Languages, filter_aizuchi \in BOOLEAN,
          additional_hotwords \in RequestTerms :
        LET req == [op |-> "transcribe", language |-> language,
                    filter_aizuchi |-> filter_aizuchi,
                    additional_hotwords |-> additional_hotwords]
            earlier == IF request = NoRequest THEN {}
                       ELSE frame[Caller].earlier \cup
                            {request.additional_hotwords[k] :
                                 k \in 1..Len(request.additional_hotwords)}
        IN  /\ request' = req
            /\ frame' = [frame EXCEPT ![Caller] = Locals(req, earlier)]
            /\ IF model = None
               THEN /\ result' = Raise(NotReadyLocal)
                    /\ pc' = [pc EXCEPT ![Caller] = "done"]
                    /\ history' = <<>>
                    /\ hotwords' = hotwords
               ELSE /\ result' = NoResult
                    /\ pc' = [pc EXCEPT ![Caller] = "model"]
                    /\ history' =
                           <<Did("initial_prompt", 0,
                                 initial_prompt(hotwords, language, additional_hotwords))>>
                    /\ hotwords' = hotwords_after_merge(hotwords, additional_hotwords)
    /\ calls' = calls + 1
    /\ UNCHANGED <<stats, hallucination_filter, invoked>>
    /\ StepsUnchanged

\* self.model.transcribe(...): it raises, or gives the segments
LocalModel ==
    /\ pc[Caller] = "model"
    /\ invoked' = [invoked EXCEPT !.local = @ + 1]
    /\ \/ \E e \in ProviderErrors :
            /\ stats' = apply_records(stats, on_exception(10))
            /\ result' = reraise(e)
            /\ pc' = [pc EXCEPT ![Caller] = "done"]
            /\ UNCHANGED frame
       \/ \E segments \in StepSegmentSeqs :
            /\ frame' = [frame EXCEPT ![Caller].segments = segments, ![Caller].k = 1]
            /\ pc' = [pc EXCEPT ![Caller] = "segments"]
            /\ UNCHANGED <<stats, result>>
    /\ UNCHANGED <<hotwords, hallucination_filter, calls, history, request>>
    /\ StepsUnchanged

\* one pass of "for segment in segments"
LocalSegment ==
    LET l == frame[Caller] IN
    /\ pc[Caller] = "segments"
    /\ l.k <= Len(l.segments)
    /\ LET segment == l.segments[l.k]
           text == strip(segment.text)
           acc == collect_segments(aizuchi_filter, <<segment>>, l.req.filter_aizuchi, l.acc)
           asked == IF l.req.filter_aizuchi
                    THEN <<Did("is_aizuchi", l.k, is_aizuchi(aizuchi_filter, text))>>
                    ELSE <<>>
           kept == IF acc.segment_count > l.acc.segment_count
                   THEN <<Did("append", l.k, text)>> ELSE <<>>
       IN  /\ frame' = [frame EXCEPT ![Caller].acc = acc, ![Caller].k = l.k + 1]
           /\ history' = history \o asked \o kept
    /\ UNCHANGED <<hotwords, stats, hallucination_filter, calls, request, result,
                   invoked, pc>>
    /\ StepsUnchanged

\* text = " ".join(text_parts).strip(), once the segments are exhausted
LocalJoin ==
    LET l == frame[Caller] IN
    /\ pc[Caller] = "segments"
    /\ l.k > Len(l.segments)
    /\ LET text == strip(join(<<" ">>, l.acc.text_parts)) IN
       /\ frame' = [frame EXCEPT ![Caller].text = text]
       /\ history' = Append(history, Did("join", Len(l.acc.text_parts), text))
    /\ pc' = [pc EXCEPT ![Caller] = "filter"]
    /\ UNCHANGED <<hotwords, stats, hallucination_filter, calls, request, result, invoked>>
    /\ StepsUnchanged

\* text, ... = self.hallucination_filter.filter(text)
LocalFilter ==
    LET l == frame[Caller]
        h == filter(hallucination_filter, l.text)
    IN  /\ pc[Caller] = "filter"
        /\ hallucination_filter' = [hallucination_filter EXCEPT !.stats = h.stats]
        /\ frame' = [frame EXCEPT ![Caller].text = h.text]
        /\ history' = Append(history, Did("hallucination_filter.filter", 0, l.text))
        /\ pc' = [pc EXCEPT ![Caller] = "record"]
        /\ UNCHANGED <<hotwords, stats, calls, request, result, invoked>>
        /\ StepsUnchanged

\* the confidence, self.stats.record(...) and the return
LocalReturn ==
    LET l == frame[Caller]
        confidence == confidence_of(l.acc.total_logprob, l.acc.segment_count)
    IN  /\ pc[Caller] = "record"
        /\ stats' = record(stats, 10, is_success(l.text), 30)
        /\ result' = Return(l.text, confidence, 10)
        /\ pc' = [pc EXCEPT ![Caller] = "done"]
        /\ UNCHANGED <<hotwords, hallucination_filter, calls, history, request, invoked,
                       frame>>
        /\ StepsUnchanged

NextSteps ==
    \/ LocalStart
    \/ LocalModel
    \/ LocalSegment
    \/ LocalJoin
    \/ LocalFilter
    \/ LocalReturn

SpecSteps == InitSteps /\ [][NextSteps]_vars

(***************************************************************************)
(* transcribe on a loaded cloud service, with every argument of the call   *)
(***************************************************************************)
\* what the API answers: an error, or a text (a filler and a boilerplate
\* particle among them) after env.time
CloudAnswers ==
    [init : {"ok"}, raises : {"ConnectionError: network"}, text : {<<>>},
     time : {0}, elapsed : {20}]
    \cup [init : {"ok"}, raises : {None},
          text : {<<>>, TextAbc, TextUn \o <<"\n">>, <<"{n}">>},
          time : {10}, elapsed : {0}]

\* a cloud service after load_model; the filters' enabled attributes as
\* constructed (off) or set on the objects (on)
InitCloud ==
    /\ provider_type \in {"groq", "openai"}
    /\ api_key = TRUE
    /\ model = None
    /\ cloud_provider = [kind |-> provider_type, client |-> "client", ready |-> TRUE]
    /\ stats = TranscriptionStats
    /\ \E enabled \in BOOLEAN :
          /\ aizuchi_filter = AizuchiFilter(15, enabled)
          /\ hallucination_filter = HallucinationFilter(enabled, 3, 20)
    /\ hotwords = <<TermA, TermB>>
    /\ NoCallsYet

\* transcribe(audio_path, "ja", filter_aizuchi, additional_hotwords)
TranscribeCloud ==
    /\ calls < MaxRequests
    /\ \E filter_aizuchi \in BOOLEAN, additional_hotwords \in {<<>>, <<TermX>>},
          env \in CloudAnswers :
        LET req == [op |-> "transcribe", language |-> "ja",
                    filter_aizuchi |-> filter_aizuchi,
                    additional_hotwords |-> additional_hotwords, env |-> env]
            r == transcribe(Svc, req, env)
        IN  /\ stats' = apply_records(stats, r.records)
            /\ hallucination_filter' =
                   [hallucination_filter EXCEPT !.stats = r.hallucination_stats]
            /\ cloud_provider' = r.cloud_provider
            /\ invoked' = [local |-> invoked.local + r.local_calls,
                           cloud |-> invoked.cloud + r.cloud_calls]
            /\ calls' = calls + 1
            /\ request' = req
            /\ result' = r.result
            /\ UNCHANGED <<hotwords, provider_type, api_key, model, aizuchi_filter,
                           history, pc, frame>>

NextCloud == TranscribeCloud

SpecCloud == InitCloud /\ [][NextCloud]_vars

(***************************************************************************)
(* Overlapping add calls on one HotwordsManager.  add runs as its two      *)
(* statements: the test "word not in self.hotwords" and the append; no     *)
(* lock is held between them.                                              *)
(***************************************************************************)
\* HotwordsManager(hotwords=...) with a list without repetitions
InitAddThreads ==
    /\ provider_type = "local"
    /\ api_key = FALSE
    /\ model = None
    /\ cloud_provider = NoProvider
    /\ stats = TranscriptionStats
    /\ aizuchi_filter = AizuchiFilter(15, FALSE)
    /\ hallucination_filter = HallucinationFilter(FALSE, 3, 20)
    /\ hotwords \in {<<>>, <<TermA>>, <<TermB, TermA>>}
    /\ NoCallsYet

AddThreadsUnchanged ==
    UNCHANGED <<provider_type, api_key, model, cloud_provider, stats, aizuchi_filter,
                hallucination_filter, request, result, invoked>>

\* thread t calls add(word): "if word not in self.hotwords:"; when the word
\* is there the call returns False
AddCheck(t) ==
    /\ pc[t] = "idle"
    /\ \E word \in Terms :
        /\ frame' = [frame EXCEPT ![t].args = word]
        /\ IF ~In(word, hotwords)
           THEN /\ pc' = [pc EXCEPT ![t] = "append"]
                /\ UNCHANGED history
           ELSE /\ pc' = [pc EXCEPT ![t] = "done"]
                /\ history' = Append(history, Event("add", t,
                                                    [word |-> word, returned |-> FALSE]))
    /\ calls' = calls + 1
    /\ UNCHANGED hotwords
    /\ AddThreadsUnchanged

\* "self.hotwords.append(word)" and "return True"
AddAppend(t) ==
    /\ pc[t] = "append"
    /\ hotwords' = Append(hotwords, frame[t].args)
    /\ history' = Append(history, Event("add", t,
                                        [word |-> frame[t].args, returned |-> TRUE]))
    /\ pc' = [pc EXCEPT ![t] = "done"]
    /\ UNCHANGED <<calls, frame>>
    /\ AddThreadsUnchanged

NextAddThreads == \E t \in Threads : AddCheck(t) \/ AddAppend(t)

SpecAddThreads == InitAddThreads /\ [][NextAddThreads]_vars

(***************************************************************************)
(* Several AizuchiFilter objects.  "self.patterns = patterns or            *)
(* self.DEFAULT_PATTERNS" stores a reference: an object made without       *)
(* patterns has the class attribute DEFAULT_PATTERNS itself as its         *)
(* patterns, one made with a list has that list; _compiled is a new list   *)
(* of each object.  Here aizuchi_filter holds the class attribute and the  *)
(* objects.                                                                *)
(***************************************************************************)
\* the patterns argument of the constructor: None, or a list
PatternArguments == {None, "list"}
CustomPatterns == <<DEFAULT_PATTERNS[3]>>

\* patterns added and removed: a default one and a new one
NewPatterns == {DEFAULT_PATTERNS[1], "^ok$"}

\* object i as the methods see it: its patterns list is the class's or its own
Self(heap, i) ==
    LET o == heap.objects[i] IN
    [patterns |-> IF o.patterns = "DEFAULT_PATTERNS" THEN heap.DEFAULT_PATTERNS
                  ELSE o.list,
     compiled |-> o.compiled, max_length |-> o.max_length, enabled |-> o.enabled]

\* the heap after a method has left object i as f
Store(heap, i, f) ==
    LET o == heap.objects[i] IN
    IF o.patterns = "DEFAULT_PATTERNS"
    THEN [DEFAULT_PATTERNS |-> f.patterns,
          objects |-> [heap.objects EXCEPT ![i].compiled = f.compiled]]
    ELSE [DEFAULT_PATTERNS |-> heap.DEFAULT_PATTERNS,
          objects |-> [heap.objects EXCEPT ![i].compiled = f.compiled,
                                           ![i].list = f.patterns]]

\* AizuchiFilter(patterns): the heap with the new object
new_filter(heap, patterns) ==
    IF patterns = None
    THEN [heap EXCEPT !.objects =
              Append(@, [patterns |-> "DEFAULT_PATTERNS", list |-> <<>>,
                         compiled |-> heap.DEFAULT_PATTERNS,
                         max_length |-> 15, enabled |-> TRUE])]
    ELSE [heap EXCEPT !.objects =
              Append(@, [patterns |-> "own", list |-> CustomPatterns,
                         compiled |-> CustomPatterns,
                         max_length |-> 15, enabled |-> TRUE])]

\* the module as imported, and two filters made with the defaults
InitInstances ==
    /\ provider_type = "local"
    /\ api_key = FALSE
    /\ model = None
    /\ cloud_provider = NoProvider
    /\ stats = TranscriptionStats
    /\ aizuchi_filter =
           new_filter(new_filter([DEFAULT_PATTERNS |-> DEFAULT_PATTERNS,
                                  objects |-> <<>>], None), None)
    /\ hallucination_filter = HallucinationFilter(FALSE, 3, 20)
    /\ hotwords = <<>>
    /\ NoCallsYet

InstancesUnchanged ==
    UNCHANGED <<provider_type, api_key, model, cloud_provider, stats,
                hallucination_filter, hotwords, history, invoked, pc, frame>>

\* AizuchiFilter(patterns=...)
NewFilter ==
    /\ calls < MaxAizuchiCalls
    /\ \E patterns \in PatternArguments :
        /\ aizuchi_filter' = new_filter(aizuchi_filter, patterns)
        /\ request' = [op |-> "AizuchiFilter", object |-> Len(aizuchi_filter.objects) + 1,
                       text |-> patterns]
        /\ result' = [kind |-> "ok", value |-> None]
    /\ calls' = calls + 1
    /\ InstancesUnchanged

\* objects[i].add_pattern(pattern)
AddPatternTo ==
    /\ calls < MaxAizuchiCalls
    /\ \E i \in 1..Len(aizuchi_filter.objects), pattern \in NewPatterns :
        /\ aizuchi_filter' =
               Store(aizuchi_filter, i, add_pattern(Self(aizuchi_filter, i), pattern))
        /\ request' = [op |-> "add_pattern", object |-> i, text |-> pattern]
        /\ result' = [kind |-> "ok", value |-> None]
    /\ calls' = calls + 1
    /\ InstancesUnchanged

\* objects[i].remove_pattern(pattern)
RemovePatternFrom ==
    /\ calls < MaxAizuchiCalls
    /\ \E i \in 1..Len(aizuchi_filter.objects), pattern \in NewPatterns :
        LET r == remove_pattern(Self(aizuchi_filter, i), pattern) IN
        /\ aizuchi_filter' = Store(aizuchi_filter, i, r.filter)
        /\ request' = [op |-> "remove_pattern", object |-> i, text |-> pattern]
        /\ result' = IF r.raised # None THEN Raise(r.raised)
                     ELSE [kind |-> "ok", value |-> r.value]
    /\ calls' = calls + 1
    /\ InstancesUnchanged

\* objects[i].get_stats()
GetStatsOf ==
    /\ request.op # "get_stats"
    /\ \E i \in 1..Len(aizuchi_filter.objects) :
        /\ request' = [op |-> "get_stats", object |-> i, text |-> <<>>]
        /\ result' = [kind |-> "ok",
                      value |-> aizuchi_get_stats(Self(aizuchi_filter, i))]
    /\ UNCHANGED <<aizuchi_filter, calls>>
    /\ InstancesUnchanged

NextInstances == NewFilter \/ AddPatternTo \/ RemovePatternFrom \/ GetStatsOf

SpecInstances == InitInstances /\ [][NextInstances]_vars

(***************************************************************************)
(* Claims                                                                  *)
(***************************************************************************)
\* a step that is one whole transcribe call
TranscribeStep == request'.op = "transcribe" /\ calls' = calls + 1

\* the provider of the configured kind has been created
Initialized ==
    IF IsCloud(provider_type) THEN cloud_provider # NoProvider ELSE model # None

\* C1 as stated: every call to transcribe, returning or raising, makes
\* exactly one TranscriptionStats.record call, so the number of recorded
\* requests always equals the number of transcribe calls made.
C1_EveryCallRecordsOnce == stats.total_requests = calls

\* C1 amended: a transcribe call on a service whose provider has been
\* created makes exactly one record call, and when it ends in an exception
\* that record is a failure with audio duration 0 and is in the statistics
\* in the state in which the caller has the exception; a call rejected as
\* not ready makes no record call.
C1_OneRecordPerAttempt ==
    [][TranscribeStep =>
        IF Initialized
        THEN /\ stats'.total_requests = stats.total_requests + 1
             /\ result'.kind = "exception" =>
                   /\ stats'.failed_requests = stats.failed_requests + 1
                   /\ stats'.successful_requests = stats.successful_requests
                   /\ stats'.total_audio_seconds = stats.total_audio_seconds
        ELSE /\ stats' = stats
             /\ result'.kind = "exception"]_vars

C1_Witness ==
    /\ request.op = "transcribe"
    /\ calls = 2
    /\ result.kind = "exception"
    /\ result.error \in ProviderErrors
    /\ stats.total_requests = 2
    /\ stats.failed_requests = 1

\* the exception the provider raises in the call with environment env, or
\* None; the local model raises env.raises, a cloud provider raises from
\* its client initialization or from the API call
ProviderRaises(env) ==
    IF IsCloud(provider_type)
    THEN provider_transcribe(cloud_provider, env).raised
    ELSE env.raises

\* C2: when the provider raises during transcribe, failed_requests grows by
\* one, successful_requests is unchanged and the caller gets that same
\* exception, not a result and not another error.
C2_ProviderErrorRecordedAndReraised ==
    [][(TranscribeStep /\ Initialized /\ ProviderRaises(request'.env) # None) =>
        /\ stats'.failed_requests = stats.failed_requests + 1
        /\ stats'.successful_requests = stats.successful_requests
        /\ result'.kind = "exception"
        /\ result'.error = ProviderRaises(request'.env)]_vars

C2_Witness ==
    /\ request.op = "transcribe"
    /\ provider_type = "groq"
    /\ result.kind = "exception"
    /\ result.error = "ConnectionError: network"
    /\ stats.failed_requests = 1
    /\ stats.successful_requests = 1

C4_NoLostUpdate ==
    (\A t \in Threads : pc[t] = "done") =>
        /\ stats.total_requests = NThreads
        /\ stats.successful_requests + stats.failed_requests = NThreads

RECURSIVE CountSuccess(_)
CountSuccess(h) ==
    IF h = <<>> THEN 0
    ELSE (IF Head(h).success THEN 1 ELSE 0) + CountSuccess(Tail(h))

\* C5: after any sequence of record calls on a fresh stats object,
\* total_requests is the number of calls, successful_requests the number
\* with success=true, failed_requests the number with success=false, and
\* total_requests = successful_requests + failed_requests.
C5_CountersCountCalls ==
    /\ stats.total_requests = Len(history)
    /\ stats.successful_requests = CountSuccess(history)
    /\ stats.failed_requests = Len(history) - CountSuccess(history)
    /\ stats.total_requests = stats.successful_requests + stats.failed_requests

C5_Witness ==
    /\ Len(history) = 3
    /\ stats.successful_requests = 2
    /\ stats.failed_requests = 1

\* C6: read at any time, avg_processing_time is total_processing_time /
\* total_requests and success_rate is successful_requests / total_requests
\* when there are requests, and 0.0 and 1.0 when there are none; after
\* (1.0 s, success) then (2.0 s, failure) they are 1.5 s and 0.5.
C6_DerivedStatistics ==
    LET avg == avg_processing_time(stats)
        rate == success_rate(stats)
    IN  /\ avg.d > 0 /\ rate.d > 0
        /\ stats.total_requests = 0 => (avg = FromInt(0) /\ rate = FromInt(1))
        /\ stats.total_requests > 0 =>
              /\ avg.n * stats.total_requests = stats.total_processing_time * avg.d
              /\ rate.n * stats.total_requests = stats.successful_requests * rate.d
        /\ (/\ Len(history) = 2
            /\ history[1].processing_time = 10 /\ history[1].success
            /\ history[2].processing_time = 20 /\ ~history[2].success) =>
              (avg = FromInt(15) /\ rate = [n |-> 1, d |-> 2])

C6_Witness ==
    /\ Len(history) = 2
    /\ history[1].processing_time = 10 /\ history[1].success
    /\ history[2].processing_time = 20 /\ ~history[2].success
    /\ avg_processing_time(stats) = FromInt(15)

\* C7: a transcribe call that returns is recorded as successful exactly
\* when the text it returns is non-empty, and as failed when it is empty.
C7_SuccessIffTextNonEmpty ==
    [][(TranscribeStep /\ result'.kind = "ok") =>
        IF result'.text # <<>>
        THEN /\ stats'.successful_requests = stats.successful_requests + 1
             /\ stats'.failed_requests = stats.failed_requests
        ELSE /\ stats'.failed_requests = stats.failed_requests + 1
             /\ stats'.successful_requests = stats.successful_requests]_vars

C7_Witness ==
    /\ request.op = "transcribe"
    /\ result.kind = "ok"
    /\ result.text = <<>>
    /\ stats.failed_requests = 1
    /\ stats.successful_requests = 1

\* the segments of a local call that are not fillers under the default
\* configuration (filter enabled, maximum length 15), in order
RECURSIVE NonFillers(_)
NonFillers(segments) ==
    IF segments = <<>> THEN <<>>
    ELSE (IF is_aizuchi(AizuchiFilter(15, TRUE), strip(Head(segments).text))
          THEN <<>> ELSE <<Head(segments)>>) \o NonFillers(Tail(segments))

RECURSIVE SumLogprob(_)
SumLogprob(segments) ==
    IF segments = <<>> THEN 0
    ELSE Head(segments).avg_logprob + SumLogprob(Tail(segments))

\* C8 as stated: a local call with filter_aizuchi = true under the default
\* configuration returns the joined text of the non-filler segments only,
\* with a confidence that is the code's mapping of their log probabilities
\* alone; for [(un, -0.1), (kore wa tesuto desu, -0.4)] the text is the
\* second segment's and the confidence is that of -0.4 (13/15).
C8_FillersDropped ==
    (/\ request.op = "transcribe"
     /\ provider_type = "local"
     /\ result.kind = "ok"
     /\ request.filter_aizuchi) =>
        LET kept == NonFillers(request.env.segments) IN
        /\ result.text =
               strip(join(<<" ">>, [k \in 1..Len(kept) |-> strip(kept[k].text)]))
        /\ result.confidence = confidence_of(SumLogprob(kept), Len(kept))
        /\ request.env.segments = <<Seg(TextUn, -1), Seg(TextTest, -4)>> =>
              (result.text = TextTest /\ result.confidence = [n |-> 13, d |-> 15])

\* the segments a local call kept: all but those its filler filter dropped
RECURSIVE Kept(_, _, _)
Kept(f, segments, filter_aizuchi) ==
    IF segments = <<>> THEN <<>>
    ELSE (IF filter_aizuchi /\ is_aizuchi(f, strip(Head(segments).text))
          THEN <<>> ELSE <<Head(segments)>>)
         \o Kept(f, Tail(segments), filter_aizuchi)

\* C9: the confidence a local call returns is clamp(0, 1, 1 + avg/3), avg
\* the mean log probability of the kept segments, and 0 when none is kept:
\* it lies in [0, 1]; it is 0 for avg <= -3, 1 for avg >= 0, 1/2 for
\* avg = -1.5, and 1 + avg/3 in between.  (total is in 0.1, so avg <= -3
\* reads total <= -30 n.)
C9_ConfidenceMapping ==
    (request.op = "transcribe" /\ result.kind = "ok") =>
        LET kept == Kept(aizuchi_filter, request.env.segments, request.filter_aizuchi)
            n == Len(kept)
            total == SumLogprob(kept)
            c == result.confidence
        IN  /\ c.d > 0 /\ 0 <= c.n /\ c.n <= c.d
            /\ n = 0 => c = FromInt(0)
            /\ (n > 0 /\ total <= -30 * n) => c = FromInt(0)
            /\ (n > 0 /\ total >= 0) => c = FromInt(1)
            /\ (n > 0 /\ 2 * total = -30 * n) => c = [n |-> 1, d |-> 2]
            /\ (n > 0 /\ -30 * n < total /\ total < 0) =>
                  c.n * 30 * n = c.d * (30 * n + total)

C9_Witness ==
    /\ request.op = "transcribe"
    /\ result.kind = "ok"
    /\ Len(request.env.segments) = 2
    /\ request.env.segments[1].avg_logprob = 0
    /\ request.env.segments[2].avg_logprob = -30
    /\ result.confidence = [n |-> 1, d |-> 2]

\* a step that is one whole filter call
FilterStep == request'.op = "filter" /\ calls' = calls + 1

\* C10: filter reports was_filtered = false exactly when the filter is
\* disabled, the text is empty, or neither the pattern check nor the
\* repetition check fires; it then returns the text as given with no
\* reason and leaves the three counters as they were; filter("") returns
\* ("", false, None).
C10_PassThrough ==
    [][FilterStep =>
        LET f == hallucination_filter
            text == request'.text
            fires == \/ detect_pattern_hallucination(f, text)
                     \/ detect_repetition(f, text).is_repetition
        IN  /\ ~result'.was_filtered <=> (~f.enabled \/ text = <<>> \/ ~fires)
            /\ ~result'.was_filtered =>
                  /\ result'.text = text
                  /\ result'.reason = NoReason
                  /\ hallucination_filter'.stats = f.stats
            /\ text = <<>> =>
                  /\ result'.text = <<>>
                  /\ ~result'.was_filtered
                  /\ result'.reason = NoReason]_vars

C10_Witness ==
    /\ request.op = "filter"
    /\ calls = 2
    /\ hallucination_filter.enabled
    /\ request.text = <<" ", "a", "b", "c">>
    /\ ~result.was_filtered
    /\ result.text = request.text
    /\ hallucination_filter.stats.total_filtered = 1

\* C11: for an enabled filter and a non-empty text that matches a
\* boilerplate pattern, filter returns ("", true, "pattern_match"), adds
\* one to pattern_filtered and to total_filtered and leaves
\* repetition_filtered alone, also when the text is a repetition as well.
C11_PatternMatchFirst ==
    [][(/\ FilterStep
        /\ hallucination_filter.enabled
        /\ request'.text # <<>>
        /\ detect_pattern_hallucination(hallucination_filter, request'.text)) =>
          /\ result'.text = <<>>
          /\ result'.was_filtered
          /\ result'.reason = PatternMatch
          /\ hallucination_filter'.stats.pattern_filtered =
                 hallucination_filter.stats.pattern_filtered + 1
          /\ hallucination_filter'.stats.total_filtered =
                 hallucination_filter.stats.total_filtered + 1
          /\ hallucination_filter'.stats.repetition_filtered =
                 hallucination_filter.stats.repetition_filtered]_vars

\* a pattern match that is a repetition too has been reported as a pattern
C11_Witness ==
    /\ request.op = "filter"
    /\ hallucination_filter.enabled
    /\ request.text = <<".", ".", ".", ".", ".", ".">>
    /\ detect_repetition(hallucination_filter, request.text).is_repetition
    /\ result.reason = PatternMatch
    /\ hallucination_filter.stats.pattern_filtered = 1
    /\ hallucination_filter.stats.repetition_filtered = 0

\* text is n or more whitespace-separated tokens, all the same
IdenticalTokens(text, n) ==
    LET words == split(text) IN
    /\ Len(words) >= n
    /\ \A k \in 1..Len(words) : words[k] = words[1]

\* filter has reported a repetition and returned one instance of the token
CollapsedToOneToken ==
    /\ result'.was_filtered
    /\ result'.text = split(request'.text)[1]
    /\ hallucination_filter'.stats.repetition_filtered =
           hallucination_filter.stats.repetition_filtered + 1

\* C12: for every text of N identical whitespace-separated tokens, N at
\* least the minimum repetition count, an enabled filter reports a
\* repetition, counts it and returns one instance of the token.  (Read in
\* the order of filter: the text matches no boilerplate pattern.)
C12_IdenticalTokensCollapsed ==
    [][(/\ FilterStep
        /\ hallucination_filter.enabled
        /\ ~detect_pattern_hallucination(hallucination_filter, request'.text)
        /\ IdenticalTokens(request'.text, hallucination_filter.min_repetition_count))
          => CollapsedToOneToken]_vars

\* a step that is one whole detect_repetition call
DetectStep == request'.op = "detect_repetition" /\ calls' = calls + 1

\* the prefix of length n of text is a repeated phrase of text for f
Qualifies(f, text, n) ==
    LET p == SubSeq(text, 1, n)
        c == count(text, p)
    IN  /\ 2 <= n
        /\ n <= f.max_repetition_length
        /\ 2 * n <= Len(text)
        /\ c >= f.min_repetition_count
        /\ 5 * c * n >= 4 * Len(text)

\* C13: when the (trimmed) text is not a run of identical tokens,
\* detect_repetition reports a repetition exactly when some prefix p of
\* it, 2 <= |p| <= min(max_repetition_length, half its length), occurs
\* c >= min_repetition_count times without overlap with c * |p| at least
\* 80% of its length, and the phrase reported is the shortest such prefix;
\* for "abcabcabcabc" it is "abc".
C13_SubstringRepetition ==
    [][DetectStep =>
        LET f == hallucination_filter
            text == strip(request'.text)
            lens == {n \in 2..Len(text) : Qualifies(f, text, n)}
        IN  ~IdenticalTokens(text, f.min_repetition_count) =>
              /\ result'.is_repetition <=> lens # {}
              /\ lens # {} =>
                    \E n \in lens :
                        /\ \A k \in lens : n <= k
                        /\ result'.phrase = SubSeq(text, 1, n)
              /\ (text = <<"a", "b", "c", "a", "b", "c", "a", "b", "c", "a", "b", "c">>
                  /\ f.min_repetition_count = 3) =>
                    result'.phrase = <<"a", "b", "c">>]_vars

\* a step that is one whole is_aizuchi call
IsAizuchiStep == request'.op = "is_aizuchi"

\* C14: is_aizuchi returns true only for an enabled filter and a fragment
\* that, trimmed, is non-empty, at most max_length long and matched by one
\* of the filter's patterns at that moment; it returns false for every
\* fragment longer than max_length, for every fragment empty after
\* trimming, and for every input of a disabled filter.
C14_FillerOnlyIfShortAndMatching ==
    [][IsAizuchiStep =>
        LET f == aizuchi_filter
            t == strip(request'.text)
        IN  /\ result'.value =>
                  /\ f.enabled
                  /\ t # <<>>
                  /\ Len(t) <= f.max_length
                  /\ \E k \in 1..Len(f.compiled) :
                        FullMatch(re_compile(f.compiled[k]), t)
            /\ Len(t) > f.max_length => ~result'.value
            /\ t = <<>> => ~result'.value
            /\ ~f.enabled => ~result'.value]_vars

\* a padded filler has been classified as one
C14_Witness ==
    /\ request.op = "is_aizuchi"
    /\ aizuchi_filter.enabled
    /\ aizuchi_filter.max_length = 15
    /\ request.text = <<" ">> \o TextUn \o <<"{.}", "{,}", " ">>
    /\ result.value = TRUE

\* no term occurs twice in list
NoDuplicates(list) ==
    \A i, j \in 1..Len(list) : list[i] = list[j] => i = j

\* a step that is one whole add call
AddStep == request'.op = "add" /\ calls' = calls + 1

\* C15: in every state reached by constructing a HotwordsManager (any
\* initial list, any file) and applying add, add_many, remove, clear,
\* load_from_file and load_from_env, no term occurs twice in the list;
\* add(word) returns True and appends word exactly when word was absent,
\* and returns False leaving the list as it was when word was present.
C15_TermsUnique ==
    /\ [](NoDuplicates(hotwords))
    /\ [][AddStep =>
            IF In(request'.arg, hotwords)
            THEN result'.value = FALSE /\ hotwords' = hotwords
            ELSE result'.value = TRUE /\ hotwords' = Append(hotwords, request'.arg)]_vars

\* the terms of words that are not in list, each once, in the order of
\* their first occurrence in words, from position k on
RECURSIVE NewTerms(_, _, _)
NewTerms(list, words, k) ==
    IF k > Len(words) THEN <<>>
    ELSE (IF ~In(words[k], list) /\ \A j \in 1..(k - 1) : words[j] # words[k]
          THEN <<words[k]>> ELSE <<>>)
         \o NewTerms(list, words, k + 1)

\* list followed by the new terms of words
Merged(list, words) == list \o NewTerms(list, words, 1)

\* a step that is one whole merge_with_request_hotwords call
MergeStep == request'.op = "merge_with_request_hotwords"

\* C16: merge_with_request_hotwords(request_hotwords, max_total) returns
\* the first max_total entries of (the hotwords in their order, then the
\* request's terms not already present, each once, in request order)
\* joined by ", ", and "" when there are none; a request term is in the
\* result only if every hotword is; [A, B] with [X, Y] and 3 gives
\* "A, B, X".
C16_MergeKeepsRegistryFirst ==
    [][MergeStep =>
        LET all == Merged(hotwords, request'.arg)
            n == request'.max_total
            kept == SubSeq(all, 1, IF n < Len(all) THEN n ELSE Len(all))
        IN  /\ result'.value = join(<<",", " ">>, kept)
            /\ kept = <<>> => result'.value = <<>>
            /\ Len(kept) > Len(hotwords) =>
                  \A k \in 1..Len(hotwords) : kept[k] = hotwords[k]
            /\ (/\ hotwords = <<TermA, TermB>>
                /\ request'.arg = <<TermX, TermY>>
                /\ n = 3) =>
                  result'.value = <<"A", ",", " ", "B", ",", " ", "X">>
            /\ hotwords' = hotwords]_vars

C16_Witness ==
    /\ request.op = "merge_with_request_hotwords"
    /\ hotwords = <<TermA, TermB>>
    /\ request.arg = <<TermX, TermY>>
    /\ request.max_total = 3
    /\ result.value = <<"A", ",", " ", "B", ",", " ", "X">>

\* a step that is one whole load_from_file or load_from_env call
LoadStep ==
    /\ request'.op \in {"load_from_file", "load_from_env"}
    /\ calls' = calls + 1

\* the terms a source holds: the items of a document's hotwords list, the
\* trimmed non-empty pieces of a comma-separated value
SourceTerms(req) ==
    IF req.op = "load_from_env" THEN stripped_nonempty(split_comma(req.arg))
    ELSE req.arg.value

\* a document with a list of terms, or an environment value
ListSource(req) ==
    req.op = "load_from_file" => (req.arg.json = "object" /\ req.arg.hotwords = "list")

\* C17: a load merges like add_many: the terms already present keep their
\* positions, the source's new terms are appended in source order; and a
\* second load of the same source right after the first changes nothing,
\* for the file and for the environment.
C17_LoadMergesIdempotently ==
    [][LoadStep =>
        /\ ListSource(request') =>
              /\ hotwords' = add_many(hotwords, SourceTerms(request')).hotwords
              /\ hotwords' = Merged(hotwords, SourceTerms(request'))
        /\ (request.op = request'.op /\ request.arg = request'.arg) =>
              hotwords' = hotwords]_vars

\* a file whose list holds a known and a new term has been loaded twice
C17_Witness ==
    /\ request.op = "load_from_file"
    /\ request.arg = Document("object", "list", <<TermA, TermX>>)
    /\ calls = 2
    /\ hotwords = <<TermB, TermA, TermX>>

\* a document that cannot be parsed, or one without a list under "hotwords"
Malformed(doc) ==
    \/ doc.json \in {"invalid", "array"}
    \/ doc.json = "object" /\ doc.hotwords # "list"

\* C18: load_from_file of malformed data (an unparseable document, or one
\* without a usable hotwords list) raises nothing and leaves the list as
\* it was.
C18_MalformedDataIgnored ==
    [][(/\ LoadStep
        /\ request'.op = "load_from_file"
        /\ Malformed(request'.arg)) =>
          /\ result'.kind = "ok"
          /\ hotwords' = hotwords]_vars

\* a step that is one whole create_provider call
CreateStep == request'.op = "create_provider"

\* C19: no cloud provider object is ever created with an absent (None or
\* empty) API key: create_provider for groq or openai without the key
\* raises a ValueError and yields no provider, an unknown kind raises a
\* ValueError too, and this is at construction: no provider is invoked
\* before one has been created.
C19_NoProviderWithoutCredential ==
    /\ [][CreateStep =>
            /\ (IsCloud(request'.kind) /\ request'.key \in {None, ""}) =>
                  /\ result'.kind = "exception"
                  /\ result'.error \in
                        {"ValueError: WHISPER_GROQ_API_KEY is required",
                         "ValueError: WHISPER_OPENAI_API_KEY is required"}
                  /\ cloud_provider' = NoProvider
            /\ request'.kind \notin {"groq", "openai", "local"} =>
                  /\ result'.kind = "exception"
                  /\ result'.error = "ValueError: Unknown provider type"
                  /\ cloud_provider' = NoProvider
            /\ cloud_provider' # NoProvider =>
                  /\ IsCloud(request'.kind)
                  /\ request'.key \notin {None, ""}
                  /\ cloud_provider'.kind = request'.kind]_vars
    /\ [](/\ \A k \in 1..Len(history) :
                history[k].event = "provider" => history[k].value \notin {None, ""}
          /\ cloud_provider # NoProvider =>
                \E k \in 1..Len(history) : history[k].event = "provider"
          /\ (invoked.cloud > 0 \/ \E t \in Threads : pc[t] # "idle") =>
                cloud_provider # NoProvider)

\* groq has been asked for with an empty key
C19_Witness ==
    /\ request.op = "create_provider"
    /\ request.kind = "groq"
    /\ request.key = ""
    /\ result.kind = "exception"
    /\ cloud_provider = NoProvider

\* C20: for one provider object the API client is initialized at most once
\* over any interleaving of is_ready and transcribe calls: after a
\* successful initialization no second client is constructed, the object
\* stays ready, and is_ready never returns False after it has returned
\* True.
C20_ClientInitializedOnce ==
    /\ [](/\ Cardinality({k \in 1..Len(history) : history[k].event = "client"}) <= 1
          /\ \A i, j \in 1..Len(history) :
                (/\ i < j
                 /\ history[i].event = "is_ready"
                 /\ history[j].event = "is_ready"
                 /\ history[i].value = TRUE) => history[j].value = TRUE)
    /\ [][cloud_provider.ready => cloud_provider'.ready]_vars

\* the positions of the log of the current call that hold event e
At(e) == {i \in 1..Len(history) : history[i].event = e}

CloudStep == request'.op = "transcribe" /\ calls' = calls + 1 /\ IsCloud(provider_type)

\* C22: on the cloud path the call does not depend on filter_aizuchi or
\* additional_hotwords (nor on what the registry holds): the same call with
\* any other values of the two, on the same service and with the same
\* provider answer, returns the same text, confidence and time, records the
\* same statistics and leaves the same filter counters; and the text
\* returned is the hallucination filter's output for the provider's
\* (trimmed) text, the confidence the provider's, whether or not that text
\* is a filler.
C22_CloudIgnoresFillerAndVocabulary ==
    [][CloudStep =>
        LET req == request'
            env == req.env
        IN  /\ \A filter_aizuchi \in BOOLEAN, additional_hotwords \in {<<>>, <<TermX>>} :
                  LET other == transcribe(Svc, [req EXCEPT
                                   !.filter_aizuchi = filter_aizuchi,
                                   !.additional_hotwords = additional_hotwords], env)
                  IN  /\ result' = other.result
                      /\ stats' = apply_records(stats, other.records)
                      /\ hallucination_filter'.stats = other.hallucination_stats
            /\ hotwords' = hotwords
            /\ env.raises = None =>
                  LET h == filter(hallucination_filter, strip(env.text)) IN
                  /\ result'.kind = "ok"
                  /\ result'.text = h.text
                  /\ result'.confidence = synth_confidence(provider_type, strip(env.text))
                  /\ hallucination_filter'.stats = h.stats]_vars

\* a filler from the API has been returned although fillers were to be
\* dropped and the filler filter is on
C22_Witness ==
    /\ request.op = "transcribe"
    /\ IsCloud(provider_type)
    /\ request.filter_aizuchi
    /\ aizuchi_filter.enabled
    /\ request.additional_hotwords = <<TermX>>
    /\ request.env.text = TextUn \o <<"\n">>
    /\ is_aizuchi(aizuchi_filter, TextUn)
    /\ result.kind = "ok"
    /\ result.text = TextUn

\* the merged vocabulary of a call as a string: the registry's terms, then
\* the request's terms that are new, at most 50, joined by ", "
Vocabulary(list, additional_hotwords) ==
    LET all == Merged(list, additional_hotwords)
    IN  join(<<",", " ">>, SubSeq(all, 1, IF Len(all) > 50 THEN 50 ELSE Len(all)))

\* C23: the initial prompt handed to the local model is, for language
\* "ja", the fixed context sentence, followed by the vocabulary clause
\* exactly when the merged vocabulary (registry, then request terms, at
\* most 50 entries) is non-empty, and so never None; for another language
\* it is the merged vocabulary alone, and None when that is empty.
C23_InitialPrompt ==
    \A i \in At("initial_prompt") :
        LET prompt == history[i].value
            vocabulary == Vocabulary(hotwords, request.additional_hotwords)
        IN  IF request.language = "ja"
            THEN /\ ~prompt.is_none
                 /\ prompt.text =
                        IF vocabulary # <<>>
                        THEN base_prompt \o VocabularyLabel \o vocabulary
                        ELSE base_prompt
            ELSE IF vocabulary # <<>>
                 THEN ~prompt.is_none /\ prompt.text = vocabulary
                 ELSE prompt.is_none

\* a registry of 51 terms and a request term: the prompt for "ja" ends
\* with the registry's 50th term
C23_Witness ==
    /\ At("initial_prompt") = {1}
    /\ hotwords = ManyTerms
    /\ request.language = "ja"
    /\ request.additional_hotwords = <<TermX>>
    /\ Len(history[1].value.text) = Len(base_prompt) + Len(VocabularyLabel) + 50 * 3 + 49 * 2
    /\ SubSeq(history[1].value.text, Len(history[1].value.text) - 2,
              Len(history[1].value.text)) = NumberedTerm(50)

\* the add calls for word that have returned True
ReturnedTrue(word) ==
    {k \in 1..Len(history) : history[k].value = [word |-> word, returned |-> TRUE]}

\* C24 as stated: with overlapping add calls no term is in the list twice,
\* at most one add call for a term returns True, and once all calls have
\* finished a term some call added is in the list exactly once with exactly
\* one call having returned True for it.
C24_UniqueUnderConcurrency ==
    /\ NoDuplicates(hotwords)
    /\ \A word \in Terms : Cardinality(ReturnedTrue(word)) <= 1
    /\ (\A t \in Threads : pc[t] = "done") =>
          \A k \in 1..Len(history) :
              In(history[k].value.word, hotwords)

\* C25: after any sequence of completed filter calls on one filter,
\* total_filtered is the number of calls that returned was_filtered = true
\* and total_filtered = repetition_filtered + pattern_filtered; a call adds
\* one to total_filtered and to one of the other two when it filters and
\* changes no counter when it does not; get_stats reports the counters and
\* changes nothing.
C25_CountersMatchDetections ==
    /\ [](LET c == hallucination_filter.stats IN
          /\ c.total_filtered = Cardinality({k \in 1..Len(history) : history[k] = TRUE})
          /\ c.total_filtered = c.repetition_filtered + c.pattern_filtered)
    /\ [][FilterStep =>
            LET c == hallucination_filter.stats
                d == hallucination_filter'.stats
            IN  IF result'.was_filtered
                THEN /\ d.total_filtered = c.total_filtered + 1
                     /\ \/ /\ d.repetition_filtered = c.repetition_filtered + 1
                           /\ d.pattern_filtered = c.pattern_filtered
                        \/ /\ d.pattern_filtered = c.pattern_filtered + 1
                           /\ d.repetition_filtered = c.repetition_filtered
                ELSE d = c]_vars
    /\ [][request'.op = "get_stats" =>
            /\ hallucination_filter' = hallucination_filter
            /\ result'.value.total_filtered = hallucination_filter.stats.total_filtered
            /\ result'.value.repetition_filtered =
                   hallucination_filter.stats.repetition_filtered
            /\ result'.value.pattern_filtered =
                   hallucination_filter.stats.pattern_filtered]_vars

\* a pattern and a repetition have been filtered, and the counters read
C25_Witness ==
    /\ request.op = "get_stats"
    /\ history = <<TRUE, TRUE>>
    /\ result.value.total_filtered = 2
    /\ result.value.repetition_filtered = 1
    /\ result.value.pattern_filtered = 1

\* the terms of list, as a set
TermsOf(list) == {list[k] : k \in 1..Len(list)}

\* C26: no step of a transcribe call (the merge with the request's terms
\* included) changes the registry's list, so its size is the same before
\* and after any number of calls; and a term that only an earlier request
\* supplied is not in the prompt of a later call that did not supply it.
C26_RequestTermsNotStored ==
    /\ [][hotwords' = hotwords /\ Len(hotwords') = Len(hotwords)]_vars
    /\ [](\A i \in At("initial_prompt") :
              \A term \in frame[Caller].earlier :
                  term \notin TermsOf(hotwords) \cup TermsOf(request.additional_hotwords)
                      => \A k \in 1..Len(history[i].value.text) :
                             ~StartsAt(history[i].value.text, term, k))

\* after a call that supplied X, a call without terms has been prompted
\* with the registry's two terms only
C26_Witness ==
    /\ calls = 2
    /\ pc[Caller] = "done"
    /\ frame[Caller].earlier = {TermA, TermX}
    /\ request.additional_hotwords = <<>>
    /\ request.language = "en"
    /\ hotwords = <<TermA, TermB>>
    /\ history[1] = Did("initial_prompt", 0, PromptOf(<<"A", ",", " ", "B">>))

\* C27 as stated: an enabled filter given the text its previous filter
\* call returned gives that text back with was_filtered = false and leaves
\* the counters as they were.
C27_FilterIdempotent ==
    [][(/\ FilterStep
        /\ request.op = "filter"
        /\ hallucination_filter.enabled
        /\ request'.text = result.text) =>
          /\ result'.text = request'.text
          /\ ~result'.was_filtered
          /\ hallucination_filter'.stats = hallucination_filter.stats]_vars

\* C28 as stated: for every filter object, in every state reached by
\* making objects and calling add_pattern and remove_pattern on any of
\* them, the patterns list and the compiled list have the same length and
\* correspond index by index, so the pattern_count get_stats reports is
\* the number of patterns is_aizuchi uses; remove_pattern never raises;
\* and a call on one object leaves the patterns and the compiled patterns
\* of every other object as they were.
C28_PatternListsInStep ==
    /\ [](/\ \A i \in 1..Len(aizuchi_filter.objects) :
                LET f == Self(aizuchi_filter, i) IN
                /\ Len(f.patterns) = Len(f.compiled)
                /\ \A k \in 1..Len(f.patterns) : f.compiled[k] = f.patterns[k]
                /\ aizuchi_get_stats(f).pattern_count = Len(f.compiled)
          /\ result.kind # "exception")
    /\ [][request'.op \in {"add_pattern", "remove_pattern"} =>
            \A j \in 1..Len(aizuchi_filter.objects) :
                j # request'.object =>
                    Self(aizuchi_filter', j) = Self(aizuchi_filter, j)]_vars

\* is_ready() asked right before the call, under the environment of the call
ReadyBefore(env) ==
    IF IsCloud(provider_type) THEN is_ready(Svc, env.init) ELSE is_ready(Svc, "ok")

\* C29 as stated: in every state of the service, the one a failed
\* load_model leaves included, transcribe calls the provider only if
\* is_ready() is true, and when is_ready() is false it fails with the
\* not-ready error and records nothing.
C29_ReadinessAgrees ==
    [][TranscribeStep =>
        /\ invoked' # invoked => ReadyBefore(request'.env)
        /\ ~ReadyBefore(request'.env) =>
              /\ result'.kind = "exception"
              /\ result'.error \in {NotReadyLocal, NotReadyCloud}
              /\ stats' = stats]_vars

\* C30 as stated: whenever transcribe returns the empty text it returns
\* the confidence 0.0, on the local and on the cloud path, for every
\* segment sequence and every provider answer.
C30_EmptyTextHasZeroConfidence ==
    (request.op = "transcribe" /\ result.kind = "ok" /\ result.text = <<>>) =>
        result.confidence = FromInt(0)

====
